---------------------------- MODULE Spec2Model ----------------------------
(***************************************************************************)
(* A model of the pricing-window decision engine of DATARADAR:             *)
(*   - the tier classifier      (pricing_engine.get_ai_consensus),         *)
(*   - the window calculator    (pricing_engine.calculate_pricing_window), *)
(*   - the callers that turn a consensus and a window into a rule          *)
(*     (generate_pricing_recommendation, generate_all_rules,               *)
(*      format_email_block) and load the persisted rules again,            *)
(*   - the reconciler/executor  (ebay_auto_pricing.run_pricing_update),    *)
(*   - the rule repository      (get_active_pricing_windows of             *)
(*     ebay_auto_pricing and ebay_auto_pricing_pa, and the scripts that    *)
(*     write pricing_rules.json),                                          *)
(*   - the listings dashboard   (app_listings.update_category_pricing and  *)
(*     fetch_listings),                                                    *)
(*   - the date parsers         (sync_death_nyc.parse_date_string and      *)
(*     add_new_inventory.parse_date).                                      *)
(*                                                                         *)
(* Money is counted in cents, confidences in hundredths, calendar dates    *)
(* as <<year, month, day>> (the order of the "%Y-%m-%d" strings the code   *)
(* compares) or as proleptic Gregorian ordinals (what timedelta adds to).  *)
(***************************************************************************)
EXTENDS Integers, Sequences, FiniteSets, TLC

VARIABLES
    \* ---- tier classifier (get_ai_consensus and its callers) ----
    cpc,          \* "gather" | "tally" | "done" | "called"
    pending,      \* futures of the ThreadPoolExecutor not yet completed
    results,      \* the list `results`, in completion order
    consensus,    \* what get_ai_consensus returned (or the exception it raised)
    rec,          \* what the caller made of it (PRICING_TIERS lookup)
    \* ---- window calculator (calculate_pricing_window and its callers) ----
    wpc,          \* "call" | "windowed" | "formatted" | "saved" | "loaded"
    event_date_str, \* the argument event_date_str, as whitespace-separated tokens
    tier_arg,     \* the argument tier
    now,          \* datetime.now(): [date |-> <<y, m, d>>, tod |-> seconds]
    window,       \* what calculate_pricing_window returned
    email,        \* outcome of format_email_block on the recommendation
    rules_json,   \* pricing_rules.json as generate_3dsellers_rules writes it
    loaded,       \* outcome of loading pricing_rules.json again
    \* ---- reconciler and executor (run_pricing_update) ----
    ppc,          \* "off" | "idle" | "planned" | "reverting": where the script stands
    market,       \* the marketplace: listing id -> price in cents
    active_rules, \* what get_active_pricing_windows returns on this day
    dry_run,      \* the argument of the run in progress
    listings,     \* the snapshot get_active_listings returned
    updates,      \* the plan: the list `updates`
    done_count,   \* entries of the plan already sent to update_price
    success_count, \* as in the code
    fail_count,   \* as in the code
    last_run,     \* how the previous invocation ended
    runs,         \* invocations so far
    minute,       \* the wall clock, in minutes
    log_files,    \* pricing_log_<minute>.json: file name -> content
    outcomes,     \* history: result['success'] of each update_price call of the run
    run_results,  \* history: `outcomes` of the run that wrote each log file
    revert_log,   \* the argument log_file of the last revert_prices since the last run
    revert_calls, \* the update_price calls that invocation made
    reverts,      \* invocations of revert_prices since the last run
    \* ---- rule repository (get_active_pricing_windows and the rule scripts) ----
    rpc,          \* "off" | "ready" | "returned"
    sheet,        \* the rows of 'PRICING_RULES'!A4:H100
    rules_file,   \* pricing_rules.json: absent, a list of rules, or no JSON
    rtoday,       \* today = datetime.now().strftime('%Y-%m-%d')
    result,       \* what the last rule load returned (or raised)
    last_read,    \* history: the rule set of the last successful sheet read
    ops,          \* script runs so far
    \* ---- listings dashboard (app_listings.update_category_pricing) ----
    bpc,          \* "off" | "ready" | "done"
    shop,         \* the marketplace: listing id -> price in cents
    cache,        \* _cache: last_fetch (as the time elapsed since) and 'listings'
    fetch_path,   \* history: "cache" | "marketplace" if the last step was a
                  \* fetch_listings call that returned that way, else "none"
    bulk_req,     \* the JSON body of the last request
    used,         \* listings_by_id of the last request
    sent,         \* the ReviseFixedPriceItem calls of the last request
    response,     \* what the last request answered
    breqs,        \* requests so far
    \* ---- date parsers (sync_death_nyc.parse_date_string, add_new_inventory.parse_date) ----
    dpc,          \* "off" | "call" | "parse_date_string" | "parse_date"
    date_arg,     \* the argument date_str
    year_arg,     \* the argument year
    parsed        \* what the parser returned: <<year, month, day>> or None

cvars == <<cpc, pending, results, consensus, rec>>
wvars == <<wpc, event_date_str, tier_arg, now, window, email, rules_json, loaded>>
pvars == <<ppc, market, active_rules, dry_run, listings, updates, done_count,
           success_count, fail_count, last_run, runs, minute, log_files,
           outcomes, run_results, revert_log, revert_calls, reverts>>
rvars == <<rpc, sheet, rules_file, rtoday, result, last_read, ops>>
bvars == <<bpc, shop, cache, fetch_path, bulk_req, used, sent, response, breqs>>
dvars == <<dpc, date_arg, year_arg, parsed>>
vars == <<cvars, wvars, pvars, rvars, bvars, dvars>>

-----------------------------------------------------------------------------
(***************************************************************************)
(* Policy tables                                                           *)
(***************************************************************************)

Tiers == {"MINOR", "MEDIUM", "MAJOR", "PEAK"}

\* pricing_engine.PRICING_TIERS
PRICING_TIERS ==
    [MINOR  |-> [increase |-> 5,  window_days |-> 7],
     MEDIUM |-> [increase |-> 15, window_days |-> 10],
     MAJOR  |-> [increase |-> 25, window_days |-> 14],
     PEAK   |-> [increase |-> 35, window_days |-> 14]]

\* pricing_engine.BASE_PRICES (dollars)
BASE_PRICES ==
    [death_nyc |-> 89, shepard_fairey |-> 300, musicians |-> 900,
     space_nasa |-> 900, disney |-> 150, beatles |-> 500, default |-> 100]

\* BASE_PRICES.get(category, BASE_PRICES["default"])
BasePrice(category) ==
    IF category \in DOMAIN BASE_PRICES THEN BASE_PRICES[category]
    ELSE BASE_PRICES["default"]

\* The categories the callers are run with: two of INVENTORY's and one that
\* is no key of BASE_PRICES.
Categories == {"death_nyc", "beatles", "books"}

\* round(base_price * (1 + increase_pct / 100), 2), in cents.  base_price is
\* a whole number of dollars, so the product is a whole number of cents.
RecommendedPrice(base_price, increase_pct) == base_price * (100 + increase_pct)

-----------------------------------------------------------------------------
(***************************************************************************)
(* Tier classifier: what an oracle call can return                         *)
(***************************************************************************)

Oracles == {"claude", "openai", "gemini"}

\* The strings an oracle may put in "tier".
TierStrings == {"MINOR", "MEDIUM", "MAJOR", "PEAK", "major", "HIGH"}

\* str.upper() on those strings.
Upper(s) == IF s = "major" THEN "MAJOR" ELSE s

\* A JSON value of the payload: k is "absent" (no such key), "str", "num" or
\* "null"; s and n hold the string or the number.
Absent == [k |-> "absent", s |-> "", n |-> 0]
Null   == [k |-> "null",   s |-> "", n |-> 0]
Str(x) == [k |-> "str",    s |-> x,  n |-> 0]
Num(x) == [k |-> "num",    s |-> "", n |-> x]

TierFields == {Absent, Null} \cup {Str(s) : s \in TierStrings}
ConfFields == {Absent, Num(90), Str("high")}

\* The return value of query_<oracle>_tier: None (missing credential, HTTP
\* status other than 200, timeout or any exception, a payload that is not a
\* JSON object) or {"source": oracle, **payload}.
NoneResult == [none |-> TRUE, source |-> "", tier |-> Absent, confidence |-> Absent]

Payload(o, t, c) == [none |-> FALSE, source |-> o, tier |-> t, confidence |-> c]

QueryTier(o) ==
    {NoneResult} \cup {Payload(o, t, c) : t \in TierFields, c \in ConfFields}

\* `if result and "tier" in result`
Counted(r) == ~r.none /\ r.tier.k # "absent"

-----------------------------------------------------------------------------
(***************************************************************************)
(* Tier classifier: the vote count                                         *)
(***************************************************************************)

\* r.get("tier", "MEDIUM").upper() raises AttributeError unless the value
\* is a string.
TierRaises(r) == r.tier.k \notin {"str", "absent"}

TierKey(r) == Upper(IF r.tier.k = "absent" THEN "MEDIUM" ELSE r.tier.s)

\* r.get("confidence", 0.7)
ConfOf(r) == IF r.confidence.k = "absent" THEN Num(70) ELSE r.confidence

\* The keys of tier_votes in insertion order (a dict keeps it).
RECURSIVE KeysInOrder(_)
KeysInOrder(rs) ==
    IF rs = <<>> THEN <<>>
    ELSE LET front == KeysInOrder(SubSeq(rs, 1, Len(rs) - 1))
             key   == TierKey(rs[Len(rs)])
         IN  IF \E i \in 1..Len(front) : front[i] = key THEN front
             ELSE Append(front, key)

\* tier_votes
TierVotes(rs) ==
    [t \in {TierKey(rs[i]) : i \in 1..Len(rs)} |->
        Cardinality({i \in 1..Len(rs) : TierKey(rs[i]) = t})]

\* tier_confidence[t]
RECURSIVE TierConfidence(_, _)
TierConfidence(rs, t) ==
    IF rs = <<>> THEN <<>>
    ELSE LET front == TierConfidence(SubSeq(rs, 1, Len(rs) - 1), t)
         IN  IF TierKey(rs[Len(rs)]) = t THEN Append(front, ConfOf(rs[Len(rs)]))
             ELSE front

\* max(tier_votes, key=tier_votes.get): the first key, in insertion order,
\* among those with the largest count.
Winner(keys, votes) ==
    keys[CHOOSE i \in 1..Len(keys) :
            /\ \A j \in 1..Len(keys) : votes[keys[j]] <= votes[keys[i]]
            /\ \A j \in 1..(i - 1) : votes[keys[j]] < votes[keys[i]]]

RECURSIVE SumConf(_)
SumConf(cs) == IF cs = <<>> THEN 0 ELSE cs[1].n + SumConf(Tail(cs))

\* round(sum(cs) / len(cs), 2) in hundredths.  No mean of the confidences
\* drawn here lies exactly between two hundredths, so the rounding mode of
\* round() is not exercised.
MeanConf(cs) == (2 * SumConf(cs) + Len(cs)) \div (2 * Len(cs))

Raised(e) ==
    [raised |-> e, tier |-> "", confidence |-> 0, consensus |-> FALSE,
     votes |-> <<>>, ai_count |-> 0]

\* A plausible slip: no guard for the empty list, so max() of an empty dict
\* raises.
FallbackConsensus_NoGuard == Raised("ValueError")

\* `if not results: return {...}` (no "ai_count" key: readers use .get(.., 0))
FallbackConsensus ==
    [raised |-> "", tier |-> "MEDIUM", confidence |-> 50, consensus |-> FALSE,
     votes |-> <<>>, ai_count |-> 0]

\* get_ai_consensus after the gather: the value returned, or the exception
\* that leaves the function.
GetAiConsensus(rs) ==
    IF rs = <<>> THEN FallbackConsensus
    ELSE IF \E i \in 1..Len(rs) : TierRaises(rs[i]) THEN Raised("AttributeError")
    ELSE LET votes  == TierVotes(rs)
             winner == Winner(KeysInOrder(rs), votes)
             confs  == TierConfidence(rs, winner)
         IN  IF \E i \in 1..Len(confs) : confs[i].k # "num"
             THEN Raised("TypeError")
             ELSE [raised     |-> "",
                   tier       |-> winner,
                   confidence |-> MeanConf(confs),
                   consensus  |-> votes[winner] >= 2,
                   votes      |-> votes,
                   ai_count   |-> Len(rs)]

-----------------------------------------------------------------------------
(***************************************************************************)
(* Tier classifier: the state machine                                      *)
(***************************************************************************)

NoConsensus == Raised("pending")

NoRec == [raised |-> "pending", tier |-> "", increase_percent |-> 0, new_price |-> 0]

InitConsensus ==
    /\ cpc = "gather"
    /\ pending = Oracles
    /\ results = <<>>
    /\ consensus = NoConsensus
    /\ rec = NoRec

\* One future completes and as_completed yields it: its result is appended
\* if it is a dict with a "tier" key.
Complete(o) ==
    /\ cpc = "gather"
    /\ o \in pending
    /\ \E r \in QueryTier(o) :
          results' = IF Counted(r) THEN Append(results, r) ELSE results
    /\ pending' = pending \ {o}
    /\ UNCHANGED <<cpc, consensus, rec, wvars, pvars, rvars, bvars, dvars>>

\* future.result() raises: the except clause of the gather loop prints the
\* error and goes on.
CompleteRaising(o) ==
    /\ cpc = "gather"
    /\ o \in pending
    /\ pending' = pending \ {o}
    /\ UNCHANGED <<cpc, results, consensus, rec, wvars, pvars, rvars, bvars, dvars>>

\* The executor has drained: count the votes and return.
Tally ==
    /\ cpc = "gather"
    /\ pending = {}
    /\ consensus' = GetAiConsensus(results)
    /\ cpc' = "done"
    /\ UNCHANGED <<pending, results, rec, wvars, pvars, rvars, bvars, dvars>>

\* generate_pricing_recommendation / generate_all_rules: tier =
\* consensus["tier"], then PRICING_TIERS[tier]["increase"] and the price.
LookupTier(category) ==
    IF consensus.raised # "" THEN [NoRec EXCEPT !.raised = consensus.raised]
    ELSE IF consensus.tier \notin DOMAIN PRICING_TIERS
    THEN [NoRec EXCEPT !.raised = "KeyError", !.tier = consensus.tier]
    ELSE [raised           |-> "",
          tier             |-> consensus.tier,
          increase_percent |-> PRICING_TIERS[consensus.tier].increase,
          new_price        |-> RecommendedPrice(BasePrice(category),
                                   PRICING_TIERS[consensus.tier].increase)]

Recommend ==
    /\ cpc = "done"
    /\ \E category \in Categories : rec' = LookupTier(category)
    /\ cpc' = "called"
    /\ UNCHANGED <<pending, results, consensus, wvars, pvars, rvars, bvars, dvars>>

NextConsensus ==
    \/ \E o \in Oracles : Complete(o)
    \/ \E o \in Oracles : CompleteRaising(o)
    \/ Tally
    \/ Recommend

-----------------------------------------------------------------------------
(***************************************************************************)
(* Tier classifier: properties                                             *)
(***************************************************************************)

Returned == cpc \in {"done", "called"}

\* PEAK > MAJOR > MEDIUM > MINOR
Severity == [MINOR |-> 1, MEDIUM |-> 2, MAJOR |-> 3, PEAK |-> 4]

Recognised(r) == r.tier.k = "str" /\ Upper(r.tier.s) \in Tiers

AllRecognised(rs) == \A i \in 1..Len(rs) : Recognised(rs[i])

\* The permutations of 1..n
Perms(n) == {p \in [1..n -> 1..n] : \A i, j \in 1..n : p[i] = p[j] => i = j}

Permuted(rs, p) == [i \in 1..Len(rs) |-> rs[p[i]]]

\* C2: the winning tier is the tier with the most votes and, among tiers
\* tied for the most votes, the one of highest severity.  Stated for the
\* runs in which every counted vote bears one of the four tiers.
C2_PluralitySeverityTieBreak ==
    (Returned /\ consensus.raised = "" /\ results # <<>> /\ AllRecognised(results))
    => LET votes == TierVotes(results)
           w     == consensus.tier
       IN  /\ w \in DOMAIN votes
           /\ \A t \in DOMAIN votes :
                 \/ votes[t] < votes[w]
                 \/ votes[t] = votes[w] /\ Severity[t] <= Severity[w]

\* C3: a vote whose upper-cased tier is not one of the four tiers is not
\* counted, so the winning tier is one of the four and the callers' lookup
\* PRICING_TIERS[tier] is defined.
C3_UnrecognisedTierDiscarded ==
    /\ (Returned /\ consensus.raised = "")
       => /\ consensus.tier \in Tiers
          /\ DOMAIN consensus.votes \subseteq Tiers
    /\ rec.raised # "KeyError"

\* C4: whatever the oracle calls return (None, an exception, a payload with
\* no tier or with a tier or confidence of the wrong type), get_ai_consensus
\* returns a Consensus and does not raise.
C4_OracleFailureNeverRaises ==
    Returned => consensus.raised = ""

C6_CompletionOrderIndependent ==
    (Returned /\ consensus.raised = "")
    => \A p \in Perms(Len(results)) :
          LET c == GetAiConsensus(Permuted(results, p))
          IN  /\ c.tier = consensus.tier
              /\ c.consensus = consensus.consensus
              /\ c.votes = consensus.votes

-----------------------------------------------------------------------------
(***************************************************************************)
(* Calendar arithmetic (datetime.date, timedelta, strftime)                *)
(***************************************************************************)

\* The reference years datetime.now() is drawn from.
MinYear == 2024
MaxYear == 2025

IsLeap(y) == y % 4 = 0 /\ (y % 100 # 0 \/ y % 400 = 0)

DaysInMonth(y, m) ==
    IF m = 2 THEN (IF IsLeap(y) THEN 29 ELSE 28)
    ELSE IF m \in {4, 6, 9, 11} THEN 30 ELSE 31

ValidDate(y, m, d) == m \in 1..12 /\ d >= 1 /\ d <= DaysInMonth(y, m)

\* Days before January 1st of year y.
DaysBeforeYear(y) ==
    (y - 1) * 365 + (y - 1) \div 4 - (y - 1) \div 100 + (y - 1) \div 400

RECURSIVE DaysBeforeMonth(_, _)
DaysBeforeMonth(y, m) ==
    IF m = 1 THEN 0 ELSE DaysBeforeMonth(y, m - 1) + DaysInMonth(y, m - 1)

\* date.toordinal()
Ymd2Ord(ymd) == DaysBeforeYear(ymd[1]) + DaysBeforeMonth(ymd[1], ymd[2]) + ymd[3]

\* date.fromordinal(), as the <<year, month, day>> that strftime("%Y-%m-%d")
\* prints.
Ord2Ymd(n) ==
    LET y == CHOOSE yy \in (MinYear - 1)..(MaxYear + 2) :
                 DaysBeforeYear(yy) < n /\ n <= DaysBeforeYear(yy + 1)
        r == n - DaysBeforeYear(y)
        m == CHOOSE mm \in 1..12 :
                 DaysBeforeMonth(y, mm) < r /\ r <= DaysBeforeMonth(y, mm) + DaysInMonth(y, mm)
    IN  <<y, m, r - DaysBeforeMonth(y, m)>>

\* The order of two "%Y-%m-%d" strings under <=.
LeqYmd(a, b) ==
    \/ a[1] < b[1]
    \/ a[1] = b[1] /\ a[2] < b[2]
    \/ a[1] = b[1] /\ a[2] = b[2] /\ a[3] <= b[3]

-----------------------------------------------------------------------------
(***************************************************************************)
(* Window calculator: parsing the event date                               *)
(***************************************************************************)

\* A date string is the sequence of its whitespace-separated tokens.  A
\* token is a word, or a number followed by whatever is glued to it
\* ("20th", "1-3", "12/08").
Word(s)       == [w |-> s,  d |-> 0, x |-> ""]
Number(n)     == [w |-> "", d |-> n, x |-> ""]
Glued(n, s)   == [w |-> "", d |-> n, x |-> s]

\* %B and %b of time.strptime (names as KEY_EVENTS writes them)
FullMonths ==
    [January |-> 1, February |-> 2, March |-> 3, April |-> 4, May |-> 5,
     June |-> 6, July |-> 7, August |-> 8, September |-> 9, October |-> 10,
     November |-> 11, December |-> 12]

AbbrMonths ==
    [Jan |-> 1, Feb |-> 2, Mar |-> 3, Apr |-> 4, May |-> 5, Jun |-> 6,
     Jul |-> 7, Aug |-> 8, Sep |-> 9, Oct |-> 10, Nov |-> 11, Dec |-> 12]

\* The year strptime gives a date parsed without one.
StrptimeYear == 1900

\* None
None == <<>>

\* datetime.strptime(s, "<month directive> %d"): the <<month, day>> parsed,
\* or None where strptime raises ValueError (no match, unconverted data, or
\* a day the month does not have in 1900).
Strptime(s, months) ==
    IF /\ Len(s) = 2
       /\ s[1].w \in DOMAIN months
       /\ s[2].w = "" /\ s[2].x = ""
       /\ s[2].d \in 1..31
       /\ ValidDate(StrptimeYear, months[s[1].w], s[2].d)
    THEN <<months[s[1].w], s[2].d>>
    ELSE None

\* try "%B %d", except: try "%b %d", except: return None
ParseEventDate(s) ==
    IF Strptime(s, FullMonths) # None THEN Strptime(s, FullMonths)
    ELSE Strptime(s, AbbrMonths)

-----------------------------------------------------------------------------
(***************************************************************************)
(* Window calculator: calculate_pricing_window                             *)
(***************************************************************************)

\* event_date < datetime.now(), event_date being midnight of its day.
IsPast(ymd, t) ==
    \/ Ymd2Ord(ymd) < Ymd2Ord(t.date)
    \/ Ymd2Ord(ymd) = Ymd2Ord(t.date) /\ 0 < t.tod

\* A plausible slip: the roll-over forgotten.
BindYear_ThisYear(md, t) == <<t.date[1], md[1], md[2]>>

\* event_date.replace(year=now.year), moved to now.year + 1 if it is before
\* now.  (The reads of datetime.now() within one call are one instant.)
BindYear(md, t) ==
    LET this == <<t.date[1], md[1], md[2]>>
    IN  IF IsPast(this, t) THEN <<t.date[1] + 1, md[1], md[2]>> ELSE this

\* A plausible slip: a window as long after the event as before it.
EndDate_Symmetric(event_ord, tier) == event_ord + PRICING_TIERS[tier].window_days

\* end_date = event_date + timedelta(days=2)
EndDate(event_ord, tier) == event_ord + 2

\* start_date = event_date - timedelta(days=window_days)
StartDate(event_ord, tier) == event_ord - PRICING_TIERS[tier].window_days

NoWindow ==
    [none |-> TRUE, event_date |-> None, price_start |-> None,
     price_end |-> None, window_days |-> 0]

CalculatePricingWindow(s, tier, t) ==
    LET md == ParseEventDate(s)
    IN  IF md = None THEN NoWindow
        ELSE LET event == BindYear(md, t)
             IN  [none        |-> FALSE,
                  event_date  |-> event,
                  price_start |-> Ord2Ymd(StartDate(Ymd2Ord(event), tier)),
                  price_end   |-> Ord2Ymd(EndDate(Ymd2Ord(event), tier)),
                  window_days |-> PRICING_TIERS[tier].window_days]

-----------------------------------------------------------------------------
(***************************************************************************)
(* Window calculator: its callers                                          *)
(***************************************************************************)

\* generate_all_rules: the rule built from the tier and the window; a window
\* of None leaves start_date and end_date None and the rule is still added.
GeneratedRule(tier, w) ==
    [tier             |-> tier,
     increase_percent |-> PRICING_TIERS[tier].increase,
     start_date       |-> IF w.none THEN None ELSE w.price_start,
     end_date         |-> IF w.none THEN None ELSE w.price_end]

\* format_email_block: w = r.get("window", {}) is None when the key holds
\* None, and w.get(...) then raises.
FormatEmailBlock(w) == IF w.none THEN "AttributeError" ELSE "ok"

\* The empty string where a date string is expected: falsy, and before
\* every "%Y-%m-%d" string in the order of strings.
EmptyStr == <<0, 0, 0>>

Loaded(e, rs) == [raised |-> e, active |-> rs]

NotLoaded == Loaded("pending", <<>>)

\* ebay_auto_pricing.get_active_pricing_windows, fallback path:
\* `if start and end and start <= today <= end`
IsActive(rule, today) ==
    /\ rule.start_date # None /\ rule.start_date # EmptyStr
    /\ rule.end_date # None /\ rule.end_date # EmptyStr
    /\ LeqYmd(rule.start_date, today)
    /\ LeqYmd(today, rule.end_date)

LoadFallback(rules, today) ==
    Loaded("", SelectSeq(rules, LAMBDA r : IsActive(r, today)))

\* ebay_auto_pricing_pa.get_active_pricing_windows, fallback path:
\* `r.get('start_date', '') <= today <= r.get('end_date', '')`, which
\* raises TypeError when a stored date is null.
LoadFallbackPA(rules, today) ==
    IF \E i \in 1..Len(rules) :
          \/ rules[i].start_date = None
          \/ LeqYmd(rules[i].start_date, today) /\ rules[i].end_date = None
    THEN Loaded("TypeError", <<>>)
    ELSE Loaded("", SelectSeq(rules, LAMBDA r :
                        LeqYmd(r.start_date, today) /\ LeqYmd(today, r.end_date)))

-----------------------------------------------------------------------------
(***************************************************************************)
(* Window calculator: the state machine                                    *)
(***************************************************************************)

\* Days of the month the event strings name.
EventDays == {1, 20, 28, 29, 30, 31}

ParseableForms ==
    {<<Word(m), Number(d)>> : m \in DOMAIN FullMonths, d \in EventDays}
    \cup {<<Word(m), Number(d)>> : m \in {"Feb", "Jul", "Dec"}, d \in {20, 29}}

\* "July 20th", "12/08", "20 July", "May 1-3", "first Monday in May",
\* "early December", "July 0", "July 32"
OtherForms ==
    {<<Word("July"), Glued(20, "th")>>,
     <<Glued(12, "/08")>>,
     <<Number(20), Word("July")>>,
     <<Word("May"), Glued(1, "-3")>>,
     <<Word("first"), Word("Monday"), Word("in"), Word("May")>>,
     <<Word("early"), Word("December")>>,
     <<Word("July"), Number(0)>>,
     <<Word("July"), Number(32)>>}

DateStrings == ParseableForms \cup OtherForms

\* The instants datetime.now() is drawn from: midnight and noon of a few
\* days of each reference year.
NowDays == {<<1, 1>>, <<2, 28>>, <<2, 29>>, <<3, 1>>, <<7, 20>>, <<8, 1>>, <<12, 31>>}

Instants ==
    {t \in [date : {<<y, md[1], md[2]>> : y \in MinYear..MaxYear, md \in NowDays},
            tod  : {0, 43200}] :
        ValidDate(t.date[1], t.date[2], t.date[3])}

InitWindow ==
    /\ wpc = "call"
    /\ event_date_str \in DateStrings
    /\ tier_arg \in Tiers
    /\ now \in Instants
    /\ window = NoWindow
    /\ email = "pending"
    /\ rules_json = <<>>
    /\ loaded = NotLoaded

\* window = calculate_pricing_window(event_date, tier)
CalculateWindow ==
    /\ wpc = "call"
    /\ window' = CalculatePricingWindow(event_date_str, tier_arg, now)
    /\ wpc' = "windowed"
    /\ UNCHANGED <<event_date_str, tier_arg, now, email, rules_json, loaded, cvars, pvars, rvars, bvars, dvars>>

\* pricing_engine __main__: print(format_email_block(rec))
PrintEmailBlock ==
    /\ wpc = "windowed"
    /\ email' = FormatEmailBlock(window)
    /\ wpc' = "formatted"
    /\ UNCHANGED <<event_date_str, tier_arg, now, window, rules_json, loaded, cvars, pvars, rvars, bvars, dvars>>

\* generate_3dsellers_rules __main__: generate_all_rules(), then the rules
\* are dumped to pricing_rules.json.
SaveRules ==
    /\ wpc = "windowed"
    /\ rules_json' = <<GeneratedRule(tier_arg, window)>>
    /\ wpc' = "saved"
    /\ UNCHANGED <<event_date_str, tier_arg, now, window, email, loaded, cvars, pvars, rvars, bvars, dvars>>

\* A later run_pricing_update of ebay_auto_pricing.py reads the file (the
\* sheet being unavailable), on the day the rules were generated.
LoadRules ==
    /\ wpc = "saved"
    /\ loaded' = LoadFallback(rules_json, now.date)
    /\ wpc' = "loaded"
    /\ UNCHANGED <<event_date_str, tier_arg, now, window, email, rules_json, cvars, pvars, rvars, bvars, dvars>>

\* The same for ebay_auto_pricing_pa.py.
LoadRulesPA ==
    /\ wpc = "saved"
    /\ loaded' = LoadFallbackPA(rules_json, now.date)
    /\ wpc' = "loaded"
    /\ UNCHANGED <<event_date_str, tier_arg, now, window, email, rules_json, cvars, pvars, rvars, bvars, dvars>>

NextWindow ==
    \/ CalculateWindow
    \/ PrintEmailBlock
    \/ SaveRules
    \/ LoadRules
    \/ LoadRulesPA

-----------------------------------------------------------------------------
(***************************************************************************)
(* Window calculator: properties                                           *)
(***************************************************************************)

Windowed == wpc # "idle" /\ wpc # "call"

\* The window lengths of the policy table of the specification.
PolicyWindowDays == [MINOR |-> 7, MEDIUM |-> 10, MAJOR |-> 14, PEAK |-> 14]

\* The month and day of the event bound to the reference year.
ThisYear == <<now.date[1], ParseEventDate(event_date_str)[1],
              ParseEventDate(event_date_str)[2]>>

IsDate(ymd) == Len(ymd) = 3 /\ ValidDate(ymd[1], ymd[2], ymd[3])

July20 == <<Word("July"), Number(20)>>

\* C7: for every parseable event date and every tier, price_start is
\* window_days(tier) days before event_date, price_end is 2 days after it
\* whatever the tier, and price_start <= event_date <= price_end; "July 20",
\* PEAK, on 2025-08-01 gives 2026-07-20, 2026-07-06 and 2026-07-22.
C7_WindowAroundEvent ==
    (Windowed /\ ~window.none)
    => /\ IsDate(window.event_date)
       /\ IsDate(window.price_start)
       /\ IsDate(window.price_end)
       /\ Ymd2Ord(window.price_start)
             = Ymd2Ord(window.event_date) - PolicyWindowDays[tier_arg]
       /\ Ymd2Ord(window.price_end) = Ymd2Ord(window.event_date) + 2
       /\ LeqYmd(window.price_start, window.event_date)
       /\ LeqYmd(window.event_date, window.price_end)
       /\ (event_date_str = July20 /\ tier_arg = "PEAK" /\ now.date = <<2025, 8, 1>>)
          => /\ window.event_date  = <<2026, 7, 20>>
             /\ window.price_start = <<2026, 7, 6>>
             /\ window.price_end   = <<2026, 7, 22>>
       /\ (event_date_str = <<Word("March"), Number(1)>> /\ tier_arg = "MAJOR"
              /\ now.date[1] = 2024 /\ ~IsPast(ThisYear, now))
          => /\ window.price_start = <<2024, 2, 16>>
             /\ window.price_end   = <<2024, 3, 3>>

C7_Witness ==
    /\ wpc = "windowed"
    /\ event_date_str = July20 /\ tier_arg = "PEAK"
    /\ now = [date |-> <<2025, 8, 1>>, tod |-> 43200]
    /\ window.price_start = <<2026, 7, 6>>

\* C8: an event whose month and day, bound to the reference year, lie
\* before the reference day gets the same month and day of the next year, a
\* day after the reference day; and no event date is ever more than one
\* year past the reference year.
C8_RollsOverOneYear ==
    (Windowed /\ ~window.none)
    => /\ window.event_date[1] \in {now.date[1], now.date[1] + 1}
       /\ window.event_date[2] = ThisYear[2]
       /\ window.event_date[3] = ThisYear[3]
       /\ Ymd2Ord(ThisYear) < Ymd2Ord(now.date)
          => /\ window.event_date[1] = now.date[1] + 1
             /\ Ymd2Ord(window.event_date) > Ymd2Ord(now.date)

C8_Witness ==
    /\ wpc = "windowed"
    /\ ~window.none
    /\ Ymd2Ord(ThisYear) < Ymd2Ord(now.date)
    /\ window.event_date[1] = now.date[1] + 1

\* C9: an event whose month and day are the reference day itself, or a
\* later day of the reference year, keeps the reference year; an event on
\* the reference day therefore has a window that contains that day.
C9_SameDayKeepsYear ==
    (Windowed /\ ~window.none /\ Ymd2Ord(ThisYear) >= Ymd2Ord(now.date))
    => /\ window.event_date = ThisYear
       /\ ThisYear = now.date
          => /\ LeqYmd(window.price_start, now.date)
             /\ LeqYmd(now.date, window.price_end)

\* C10: when the event date string matches no accepted format the window is
\* None and no caller raises on it: formatting the recommendation and
\* loading the persisted rules both go through.
C10_NoWindowIsSkipped ==
    (Windowed /\ ParseEventDate(event_date_str) = None)
    => /\ window.none
       /\ email # "AttributeError"
       /\ loaded.raised \in {"", "pending"}

\* The month a month name stands for, full or abbreviated.
MonthOf(w) == IF w \in DOMAIN FullMonths THEN FullMonths[w] ELSE AbbrMonths[w]

\* The date expressions of the accepted formats among the inputs: a month
\* name and a day that month has, the same with an ordinal suffix, MM/DD,
\* the day before the month, a range, a named relative expression and a
\* vague expression.
AcceptedForms ==
    {s \in ParseableForms : s[2].d <= DaysInMonth(2024, MonthOf(s[1].w))}
    \cup {<<Word("July"), Glued(20, "th")>>,
          <<Glued(12, "/08")>>,
          <<Number(20), Word("July")>>,
          <<Word("May"), Glued(1, "-3")>>,
          <<Word("first"), Word("Monday"), Word("in"), Word("May")>>,
          <<Word("early"), Word("December")>>}

\* C11: calculate_pricing_window returns a window for every date expression
\* in the accepted formats (month name + day with or without an ordinal
\* suffix, MM/DD, day before month, range, relative and vague expressions)
\* and returns None only when the expression is in none of them.
C11_AcceptedFormatsWindowed ==
    Windowed => (window.none <=> event_date_str \notin AcceptedForms)

-----------------------------------------------------------------------------
(***************************************************************************)
(* Reconciler: matching and the new price                                  *)
(***************************************************************************)

\* Titles and keywords are sequences of characters.
LowerChar(c) == IF c = "A" THEN "a" ELSE IF c = "B" THEN "b" ELSE c

\* str.lower()
LowerStr(s) == [i \in 1..Len(s) |-> LowerChar(s[i])]

\* `kw in title`: kw occurs in title as a substring.
Contains(kw, title) ==
    \E i \in 0..(Len(title) - Len(kw)) : SubSeq(title, i + 1, i + Len(kw)) = kw

RuleMatches(rule, title) ==
    \E k \in 1..Len(rule.keywords) :
        Contains(LowerStr(rule.keywords[k]), LowerStr(title))

\* A plausible slip: the last matching rule wins.
MatchListingToRule_Last(title, rules) ==
    IF \E i \in 1..Len(rules) : RuleMatches(rules[i], title)
    THEN CHOOSE i \in 1..Len(rules) :
            /\ RuleMatches(rules[i], title)
            /\ \A j \in (i + 1)..Len(rules) : ~RuleMatches(rules[j], title)
    ELSE 0

\* match_listing_to_rule: the index of the first rule with a keyword in the
\* title, 0 for None.
MatchListingToRule(title, rules) ==
    IF \E i \in 1..Len(rules) : RuleMatches(rules[i], title)
    THEN CHOOSE i \in 1..Len(rules) :
            /\ RuleMatches(rules[i], title)
            /\ \A j \in 1..(i - 1) : ~RuleMatches(rules[j], title)
    ELSE 0

\* round(current_price * (1 + increase_pct / 100), 2) in cents.  Python
\* rounds the binary float of the product; on every price this model
\* reaches that is the exact product rounded half to even.
NewPrice(current_price, increase_pct) ==
    LET num == current_price * (100 + increase_pct)
        q   == num \div 100
        r   == num % 100
    IN  IF 2 * r > 100 \/ (2 * r = 100 /\ q % 2 = 1) THEN q + 1 ELSE q

PlanEntry(l, rule) ==
    [item_id       |-> l.item_id,
     title         |-> l.title,
     current_price |-> l.current_price,
     new_price     |-> NewPrice(l.current_price, rule.increase_percent),
     tier          |-> rule.tier,
     increase_pct  |-> rule.increase_percent,
     event         |-> rule.event]

\* A plausible slip: an entry for every matched listing, whatever its new
\* price.
RECURSIVE BuildPlan_NoGuard(_, _)
BuildPlan_NoGuard(ls, rules) ==
    IF ls = <<>> THEN <<>>
    ELSE LET front == BuildPlan_NoGuard(SubSeq(ls, 1, Len(ls) - 1), rules)
             l     == ls[Len(ls)]
             i     == MatchListingToRule(l.title, rules)
         IN  IF i # 0 THEN Append(front, PlanEntry(l, rules[i])) ELSE front

\* The loop over the listings of run_pricing_update: the list `updates`.
RECURSIVE BuildPlan(_, _)
BuildPlan(ls, rules) ==
    IF ls = <<>> THEN <<>>
    ELSE LET front == BuildPlan(SubSeq(ls, 1, Len(ls) - 1), rules)
             l     == ls[Len(ls)]
             i     == MatchListingToRule(l.title, rules)
         IN  IF i # 0 /\ NewPrice(l.current_price, rules[i].increase_percent)
                            > l.current_price
             THEN Append(front, PlanEntry(l, rules[i]))
             ELSE front

-----------------------------------------------------------------------------
(***************************************************************************)
(* Reconciler and executor: the state machine of run_pricing_update        *)
(***************************************************************************)

\* Bounds of the model.
MaxRules  == 2
MaxRuns   == 2
MaxMinute == 1

\* The inventory: two listings, in the order the marketplace returns them.
ListingIds == <<"A1", "B2">>

Titles == [A1 |-> <<"A", "b", " ", "c">>, B2 |-> <<"c", "d">>]

\* Prices in cents: none, one cent, 19.99 and 200.00.
Prices == {0, 1, 1999, 20000}

Rule(kws, tier, pct, event) ==
    [keywords |-> kws, tier |-> tier, increase_percent |-> pct, event |-> event]

\* Candidate rules: a 25% rule on "ab", a 0% rule matching through an
\* upper-case keyword, a rule that would lower the price, and a rule whose
\* keywords cell ended in a comma.
CandidateRules ==
    {Rule(<< <<"a", "b">> >>, "MAJOR", 25, "e1"),
     Rule(<< <<"x">>, <<"B">> >>, "MINOR", 0, "e2"),
     Rule(<< <<"d">> >>, "MEDIUM", 0 - 10, "e3"),
     Rule(<< <<"c", "d">>, <<>> >>, "PEAK", 25, "e4")}

RECURSIVE RuleLists(_)
RuleLists(n) ==
    IF n = 0 THEN {<<>>}
    ELSE RuleLists(n - 1)
         \cup {Append(rs, r) : rs \in {x \in RuleLists(n - 1) : Len(x) = n - 1},
                               r \in CandidateRules}

\* No log file named: revert_prices has not been called since the last run.
NoLog == 0 - 1

NeverRan == [ended |-> "never", dry_run |-> TRUE, planned |-> 0, updated |-> 0, failed |-> 0]

InitPricing ==
    /\ ppc = "idle"
    /\ market \in [{ListingIds[i] : i \in 1..Len(ListingIds)} -> Prices]
    /\ active_rules \in RuleLists(MaxRules)
    /\ dry_run = TRUE
    /\ listings = <<>>
    /\ updates = <<>>
    /\ done_count = 0
    /\ success_count = 0
    /\ fail_count = 0
    /\ last_run = NeverRan
    /\ runs = 0
    /\ minute = 0
    /\ log_files = <<>>
    /\ outcomes = <<>>
    /\ run_results = <<>>
    /\ revert_log = NoLog
    /\ revert_calls = <<>>
    /\ reverts = 0

\* EbayTradingAPI.get_active_listings on a healthy marketplace.
ActiveListings ==
    [i \in 1..Len(ListingIds) |->
        [item_id       |-> ListingIds[i],
         title         |-> Titles[ListingIds[i]],
         current_price |-> market[ListingIds[i]]]]

\* run_pricing_update(dry_run=d) up to the summary: the listings are
\* fetched, the active rules read, the plan built.
StartRun(d) ==
    /\ ppc = "idle"
    /\ runs < MaxRuns
    /\ dry_run' = d
    /\ listings' = ActiveListings
    /\ updates' = BuildPlan(ActiveListings, active_rules)
    /\ done_count' = 0
    /\ success_count' = 0
    /\ fail_count' = 0
    /\ ppc' = "planned"
    /\ outcomes' = <<>>
    /\ revert_log' = NoLog
    /\ revert_calls' = <<>>
    /\ reverts' = 0
    /\ UNCHANGED <<market, active_rules, last_run, runs, minute, log_files,
                   run_results, cvars, wvars, rvars, bvars, dvars>>

\* get_active_listings returns [] (an error response, unparseable XML):
\* "No active listings found." and the function returns.
StartRunNoListings(d) ==
    /\ ppc = "idle"
    /\ runs < MaxRuns
    /\ dry_run' = d
    /\ listings' = <<>>
    /\ updates' = <<>>
    /\ last_run' = [NeverRan EXCEPT !.ended = "no_listings", !.dry_run = d]
    /\ runs' = runs + 1
    /\ outcomes' = <<>>
    /\ revert_log' = NoLog
    /\ revert_calls' = <<>>
    /\ reverts' = 0
    /\ UNCHANGED <<ppc, market, active_rules, done_count, success_count, fail_count,
                   minute, log_files, run_results, cvars, wvars, rvars, bvars, dvars>>

\* get_active_listings raises (token error, no connection): the exception
\* leaves run_pricing_update.
StartRunRaises(d) ==
    /\ ppc = "idle"
    /\ runs < MaxRuns
    /\ dry_run' = d
    /\ listings' = <<>>
    /\ updates' = <<>>
    /\ last_run' = [NeverRan EXCEPT !.ended = "raised", !.dry_run = d]
    /\ runs' = runs + 1
    /\ outcomes' = <<>>
    /\ revert_log' = NoLog
    /\ revert_calls' = <<>>
    /\ reverts' = 0
    /\ UNCHANGED <<ppc, market, active_rules, done_count, success_count, fail_count,
                   minute, log_files, run_results, cvars, wvars, rvars, bvars, dvars>>

\* A plausible slip: the loop entered in a dry run too.
ApplyEntry_AlsoDry(ok) ==
    /\ ppc = "planned"
    /\ done_count < Len(updates)
    /\ LET u == updates[done_count + 1]
       IN  market' = IF ok THEN [market EXCEPT ![u.item_id] = u.new_price] ELSE market
    /\ success_count' = IF ok THEN success_count + 1 ELSE success_count
    /\ fail_count' = IF ok THEN fail_count ELSE fail_count + 1
    /\ done_count' = done_count + 1
    /\ outcomes' = Append(outcomes, ok)
    /\ UNCHANGED <<ppc, active_rules, dry_run, listings, updates, last_run, runs,
                   minute, log_files, run_results, revert_log, revert_calls, reverts,
                   cvars, wvars, rvars, bvars, dvars>>

\* One pass of `for u in updates`: update_price answers success or failure.
ApplyEntry(ok) ==
    /\ ppc = "planned"
    /\ ~dry_run
    /\ done_count < Len(updates)
    /\ LET u == updates[done_count + 1]
       IN  market' = IF ok THEN [market EXCEPT ![u.item_id] = u.new_price] ELSE market
    /\ success_count' = IF ok THEN success_count + 1 ELSE success_count
    /\ fail_count' = IF ok THEN fail_count ELSE fail_count + 1
    /\ done_count' = done_count + 1
    /\ outcomes' = Append(outcomes, ok)
    /\ UNCHANGED <<ppc, active_rules, dry_run, listings, updates, last_run, runs,
                   minute, log_files, run_results, revert_log, revert_calls, reverts,
                   cvars, wvars, rvars, bvars, dvars>>

\* update_price raises (requests.post fails, token error): nothing catches
\* it, the rest of the plan is not attempted and no log is written.
ApplyEntryRaises ==
    /\ ppc = "planned"
    /\ ~dry_run
    /\ done_count < Len(updates)
    /\ last_run' = [ended |-> "raised", dry_run |-> FALSE, planned |-> Len(updates),
                    updated |-> success_count, failed |-> fail_count]
    /\ runs' = runs + 1
    /\ ppc' = "idle"
    /\ UNCHANGED <<market, active_rules, dry_run, listings, updates, done_count,
                   success_count, fail_count, minute, log_files, outcomes, run_results,
                   revert_log, revert_calls, reverts, cvars, wvars, rvars, bvars, dvars>>

\* pricing_log_<%Y%m%d_%H%M>.json, opened with 'w'.
LogFileName == minute

LogRecord ==
    [timestamp       |-> minute,
     dry_run         |-> dry_run,
     listings_found  |-> Len(listings),
     active_rules    |-> Len(active_rules),
     updates_planned |-> Len(updates),
     updates         |-> updates]

WriteFile(files, name, content) ==
    [n \in DOMAIN files \cup {name} |-> IF n = name THEN content ELSE files[n]]

\* The end of run_pricing_update: the log is saved and `updates` returned.
SaveLog ==
    /\ ppc = "planned"
    /\ dry_run \/ done_count = Len(updates)
    /\ log_files' = WriteFile(log_files, LogFileName, LogRecord)
    /\ last_run' = [ended |-> "logged", dry_run |-> dry_run, planned |-> Len(updates),
                    updated |-> success_count, failed |-> fail_count]
    /\ runs' = runs + 1
    /\ ppc' = "idle"
    /\ run_results' = WriteFile(run_results, LogFileName, outcomes)
    /\ UNCHANGED <<market, active_rules, dry_run, listings, updates, done_count,
                   success_count, fail_count, minute, outcomes, revert_log, revert_calls,
                   reverts, cvars, wvars, rvars, bvars, dvars>>

\* A minute passes between two invocations.
Tick ==
    /\ ppc = "idle"
    /\ minute < MaxMinute
    /\ minute' = minute + 1
    /\ UNCHANGED <<ppc, market, active_rules, dry_run, listings, updates, done_count,
                   success_count, fail_count, last_run, runs, log_files, outcomes,
                   run_results, revert_log, revert_calls, reverts, cvars, wvars, rvars, bvars, dvars>>

\* Bound of the model: invocations of revert_prices after a run.
MaxReverts == 1

\* A plausible slip: the price the run set is sent again.
RevertPrice_New(u) == u.new_price

\* The second argument of update_price in revert_prices.
RevertPrice(u) == u.current_price

\* One call of update_price as the marketplace sees it; outcome is
\* "success", "failure" or "raised".
PriceCall(item_id, price, outcome) ==
    [item_id |-> item_id, price |-> price, outcome |-> outcome]

\* log.get('updates', []) of the log being reverted.
RevertEntries == log_files[revert_log].updates

\* revert_prices(log_file) on a log file that exists: the file is read.
StartRevert(n) ==
    /\ ppc = "idle"
    /\ reverts < MaxReverts
    /\ n \in DOMAIN log_files
    /\ revert_log' = n
    /\ revert_calls' = <<>>
    /\ reverts' = reverts + 1
    /\ ppc' = "reverting"
    /\ UNCHANGED <<market, active_rules, dry_run, listings, updates, done_count,
                   success_count, fail_count, last_run, runs, minute, log_files,
                   outcomes, run_results, cvars, wvars, rvars, bvars, dvars>>

\* One pass of `for u in log.get('updates', [])`: update_price answers
\* success or failure.
RevertEntry(ok) ==
    /\ ppc = "reverting"
    /\ Len(revert_calls) < Len(RevertEntries)
    /\ LET u == RevertEntries[Len(revert_calls) + 1]
       IN  /\ market' = IF ok THEN [market EXCEPT ![u.item_id] = RevertPrice(u)]
                               ELSE market
           /\ revert_calls' = Append(revert_calls,
                   PriceCall(u.item_id, RevertPrice(u),
                             IF ok THEN "success" ELSE "failure"))
    /\ UNCHANGED <<ppc, active_rules, dry_run, listings, updates, done_count,
                   success_count, fail_count, last_run, runs, minute, log_files,
                   outcomes, run_results, revert_log, reverts, cvars, wvars, rvars, bvars, dvars>>

\* update_price raises inside revert_prices: nothing catches it and the
\* rest of the log is not reverted.
RevertEntryRaises ==
    /\ ppc = "reverting"
    /\ Len(revert_calls) < Len(RevertEntries)
    /\ LET u == RevertEntries[Len(revert_calls) + 1]
       IN  revert_calls' = Append(revert_calls,
                   PriceCall(u.item_id, RevertPrice(u), "raised"))
    /\ ppc' = "idle"
    /\ UNCHANGED <<market, active_rules, dry_run, listings, updates, done_count,
                   success_count, fail_count, last_run, runs, minute, log_files,
                   outcomes, run_results, revert_log, reverts, cvars, wvars, rvars, bvars, dvars>>

\* The loop of revert_prices is exhausted and the function returns.
RevertDone ==
    /\ ppc = "reverting"
    /\ Len(revert_calls) = Len(RevertEntries)
    /\ ppc' = "idle"
    /\ UNCHANGED <<market, active_rules, dry_run, listings, updates, done_count,
                   success_count, fail_count, last_run, runs, minute, log_files,
                   outcomes, run_results, revert_log, revert_calls, reverts,
                   cvars, wvars, rvars, bvars, dvars>>

NextPricing ==
    \/ \E d \in BOOLEAN : StartRun(d)
    \/ \E d \in BOOLEAN : StartRunNoListings(d)
    \/ \E d \in BOOLEAN : StartRunRaises(d)
    \/ \E ok \in BOOLEAN : ApplyEntry(ok)
    \/ ApplyEntryRaises
    \/ SaveLog
    \/ Tick

\* One invocation of run_pricing_update that reaches its end, and then
\* revert_prices on a log file.
NextRevert ==
    \/ \E d \in BOOLEAN : runs = 0 /\ StartRun(d)
    \/ \E ok \in BOOLEAN : ApplyEntry(ok)
    \/ SaveLog
    \/ Tick
    \/ \E n \in DOMAIN log_files : StartRevert(n)
    \/ \E ok \in BOOLEAN : RevertEntry(ok)
    \/ RevertEntryRaises
    \/ RevertDone

-----------------------------------------------------------------------------
(***************************************************************************)
(* Reconciler and executor: properties                                     *)
(***************************************************************************)

\* The previous invocation was live, reached its end and every entry of its
\* plan was applied.
LastRunAppliedAll ==
    /\ last_run.ended = "logged"
    /\ ~last_run.dry_run
    /\ last_run.failed = 0
    /\ last_run.updated = last_run.planned

\* C1: once a live run has applied every planned update, the plan of the
\* next run over the same rules and the updated listings is empty.
C1_SecondRunPlansNothing ==
    (ppc = "planned" /\ LastRunAppliedAll) => updates = <<>>

\* kw occurs in title as a substring once both are lower-cased.
OccursIn(kw, title) ==
    \E off \in 0..(Len(title) - Len(kw)) :
        \A j \in 1..Len(kw) : LowerChar(kw[j]) = LowerChar(title[off + j])

\* The rules of the list with a keyword occurring in the title.
MatchingRules(title, rules) ==
    {r \in 1..Len(rules) :
        \E k \in 1..Len(rules[r].keywords) : OccursIn(rules[r].keywords[k], title)}

Least(S) == CHOOSE n \in S : \A m \in S : n <= m

EntriesOf(item_id) == {e \in 1..Len(updates) : updates[e].item_id = item_id}

\* C16: each listing is matched to the first rule, in the order of the rule
\* list, that has a keyword occurring case-insensitively in its title, and to
\* none when no rule has one; it gets at most one plan entry, built from that
\* rule, and none without a match.
C16_FirstMatchWins ==
    ppc = "planned"
    => \A i \in 1..Len(listings) :
          LET l == listings[i]
              M == MatchingRules(l.title, active_rules)
          IN  /\ Cardinality(EntriesOf(l.item_id)) <= 1
              /\ M = {} => /\ MatchListingToRule(l.title, active_rules) = 0
                           /\ EntriesOf(l.item_id) = {}
              /\ M # {} => /\ MatchListingToRule(l.title, active_rules) = Least(M)
                           /\ \A e \in EntriesOf(l.item_id) :
                                 /\ updates[e].event = active_rules[Least(M)].event
                                 /\ updates[e].tier = active_rules[Least(M)].tier
                                 /\ updates[e].increase_pct
                                       = active_rules[Least(M)].increase_percent

C16_Witness ==
    /\ ppc = "planned"
    /\ Len(active_rules) = 2
    /\ MatchingRules(listings[1].title, active_rules) = {1, 2}
    /\ MatchingRules(listings[2].title, active_rules) = {}
    /\ active_rules[1].event # active_rules[2].event
    /\ \E e \in EntriesOf(listings[1].item_id) :
          updates[e].event = active_rules[1].event

\* current_price * (1 + pct / 100) rounded to the cent, ties to the even
\* cent.
RoundedProduct(current_price, pct) ==
    LET num == current_price * (100 + pct)
    IN  CHOOSE n \in {num \div 100, num \div 100 + 1} :
            \/ 2 * (100 * n - num) < 100 /\ 2 * (num - 100 * n) < 100
            \/ 2 * (100 * n - num) = 100 /\ n % 2 = 0
            \/ 2 * (num - 100 * n) = 100 /\ n % 2 = 0

\* C17: every plan entry carries new_price = round(current_price * (1 +
\* increase_percent / 100), 2) and new_price > current_price; a matched
\* listing whose rounded product is not above its price (a rule of 0% or
\* less) has no entry; 200.00 under a 25% rule is planned at 250.00.
C17_PlanStrictlyRaises ==
    ppc = "planned"
    => /\ \A e \in 1..Len(updates) :
             /\ updates[e].new_price
                   = RoundedProduct(updates[e].current_price, updates[e].increase_pct)
             /\ updates[e].new_price > updates[e].current_price
             /\ (updates[e].current_price = 20000 /\ updates[e].increase_pct = 25)
                => updates[e].new_price = 25000
       /\ \A i \in 1..Len(listings) :
             LET l == listings[i]
                 M == MatchingRules(l.title, active_rules)
             IN  (M # {} /\ active_rules[Least(M)].increase_percent <= 0)
                 => EntriesOf(l.item_id) = {}

C17_Witness ==
    /\ ppc = "planned"
    /\ \E e \in 1..Len(updates) :
          /\ updates[e].current_price = 20000
          /\ updates[e].increase_pct = 25
          /\ updates[e].new_price = 25000
    /\ \E i \in 1..Len(listings) :
          /\ MatchingRules(listings[i].title, active_rules) # {}
          /\ EntriesOf(listings[i].item_id) = {}

\* C19: a dry run sends nothing to update_price and leaves every listing at
\* the price it was fetched with, and the log it saves holds the whole plan,
\* as the log of a live run does.
C19_DryRunChangesNothing ==
    /\ (ppc = "planned" /\ dry_run)
       => /\ done_count = 0 /\ success_count = 0 /\ fail_count = 0
          /\ \A i \in 1..Len(listings) :
                market[listings[i].item_id] = listings[i].current_price
    /\ (ppc = "idle" /\ last_run.ended = "logged")
       => /\ \E n \in DOMAIN log_files :
                /\ log_files[n].dry_run = last_run.dry_run
                /\ log_files[n].updates = BuildPlan(listings, active_rules)
                /\ log_files[n].updates_planned = last_run.planned
          /\ last_run.dry_run
             => \A i \in 1..Len(listings) :
                   market[listings[i].item_id] = listings[i].current_price

C19_Witness ==
    /\ ppc = "idle"
    /\ last_run.ended = "logged"
    /\ last_run.dry_run
    /\ last_run.planned = 2
    /\ \E n \in DOMAIN log_files :
          log_files[n].dry_run /\ Len(log_files[n].updates) = 2

\* The entries of the last plan that were sent to update_price.
Attempted == done_count + (IF last_run.ended = "raised" THEN 1 ELSE 0)

\* C20: a live run that has a plan sends every entry of it to update_price,
\* whatever happened to the entries before it: a failure response, a token
\* error or an exception from the call.
C20_EveryEntryAttempted ==
    (ppc = "idle" /\ ~last_run.dry_run /\ last_run.planned > 0
        /\ last_run.ended \in {"logged", "raised"})
    => Attempted = Len(updates)

\* C21: every invocation of run_pricing_update that has returned or raised,
\* dry or live, whatever it found and whatever update_price answered, has
\* saved its log file.
C21_EveryRunLogged ==
    (ppc = "idle" /\ runs > 0)
    => /\ last_run.ended = "logged"
       /\ log_files # <<>>

\* C22: the log of an invocation goes to a file that no earlier invocation
\* wrote, and the files of the earlier invocations stay as they were.
C22_LogsWriteOnce ==
    [][(runs' = runs + 1 /\ last_run'.ended = "logged")
        => /\ LogFileName \notin DOMAIN log_files
           /\ \A n \in DOMAIN log_files : log_files'[n] = log_files[n]]_vars

\* The entries of log file n that update_price answered with success in the
\* run that wrote it.
SucceededEntries(n) ==
    {e \in 1..Len(log_files[n].updates) :
        e <= Len(run_results[n]) /\ run_results[n][e]}

CallsFor(e) ==
    {c \in 1..Len(revert_calls) :
        revert_calls[c].item_id = RevertEntries[e].item_id}

\* revert_prices has gone through the log without an exception.
RevertReturned ==
    /\ ppc = "idle"
    /\ revert_log # NoLog
    /\ Len(revert_calls) = Len(RevertEntries)
    /\ \A c \in 1..Len(revert_calls) : revert_calls[c].outcome # "raised"

\* C23: revert_prices calls update_price with the old price for the entries
\* of the log whose update succeeded in that run, once each, and for no
\* entry whose update failed.
C23_RevertsSucceededOnly ==
    revert_log # NoLog
    => /\ \A c \in 1..Len(revert_calls) :
             \E e \in SucceededEntries(revert_log) :
                /\ revert_calls[c].item_id = RevertEntries[e].item_id
                /\ revert_calls[c].price = RevertEntries[e].current_price
       /\ RevertReturned
          => \A e \in SucceededEntries(revert_log) : Cardinality(CallsFor(e)) = 1

\* sorted(pricing_log_* names, reverse=True)[0], as get_alert_details
\* picks the latest log.
LatestLogName == CHOOSE n \in DOMAIN log_files : \A m \in DOMAIN log_files : m <= n

\* log.get('failed', []) of get_alert_details.
FailedList(log) == IF "failed" \in DOMAIN log THEN log.failed ELSE <<>>

\* C24: the log of a live run records the outcome of each plan entry, and
\* the failed updates of the run are read back from the latest log's
\* `failed` list.
C24_LogRecordsOutcomes ==
    (ppc = "idle" /\ last_run.ended = "logged" /\ ~last_run.dry_run)
    => LET log == log_files[LatestLogName]
       IN  /\ Len(FailedList(log)) = last_run.failed
           /\ \A e \in 1..Len(log.updates) :
                 DOMAIN log.updates[e] \cap {"success", "outcome", "error"} # {}

\* The last invocation of run_pricing_update was live and applied its whole
\* plan, and revert_prices has since been run once, on that run's log, with
\* every update_price call succeeding.
RevertedLastRun ==
    /\ RevertReturned
    /\ reverts = 1
    /\ LastRunAppliedAll
    /\ revert_log = LatestLogName
    /\ \A c \in 1..Len(revert_calls) : revert_calls[c].outcome = "success"

\* C29: after a live run that applied its whole plan, reverting that run's
\* log with every call succeeding puts every listing back at the price the
\* run fetched it with, the listings outside the plan included.
C29_RevertRestoresPrices ==
    RevertedLastRun
    => \A i \in 1..Len(listings) :
          market[listings[i].item_id] = listings[i].current_price

C29_Witness ==
    /\ RevertedLastRun
    /\ last_run.planned = 1
    /\ Len(revert_calls) = 1
    /\ \E i \in 1..Len(listings) :
          /\ listings[i].item_id = updates[1].item_id
          /\ updates[1].new_price > listings[i].current_price
          /\ market[listings[i].item_id] = listings[i].current_price

\* C28: a listing is matched to a rule only through a keyword of the rule
\* that is not the empty string and occurs in its title; a rule whose
\* keywords list holds "" does not match a title none of its other keywords
\* occurs in.
C28_EmptyKeywordNeverMatches ==
    ppc = "planned"
    => \A i \in 1..Len(listings) :
          LET r == MatchListingToRule(listings[i].title, active_rules)
          IN  r # 0
              => \E k \in 1..Len(active_rules[r].keywords) :
                    /\ active_rules[r].keywords[k] # <<>>
                    /\ OccursIn(active_rules[r].keywords[k], listings[i].title)

\* C30: reverting the log of a dry run sends nothing to update_price.
C30_DryLogRevertsNothing ==
    (revert_log # NoLog /\ log_files[revert_log].dry_run)
    => revert_calls = <<>>


-----------------------------------------------------------------------------
(***************************************************************************)
(* Rule repository: the sheet rows and what is parsed from them            *)
(***************************************************************************)

\* A cell of the increase column: a decimal integer, empty, or other text.
IntCell(n) == [k |-> "int",   n |-> n]
EmptyCell  == [k |-> "empty", n |-> 0]
TextCell   == [k |-> "text",  n |-> 0]

\* A row of 'PRICING_RULES'!A4:H100 with its first n cells present: item,
\* keywords, event, tier, increase, start date, end date, active flag.  The
\* keyword cell is given as the pieces between its commas.
Row(n, item, kws, tier, pct, start, end, flag) ==
    [len |-> n, item |-> item, keywords |-> kws, event |-> "anniversary",
     tier |-> tier, pct |-> pct, start_date |-> start, end_date |-> end,
     flag |-> flag]

\* `len(row) >= 7 and row[0] and row[1]`
RowUsable(row) == row.len >= 7 /\ row.item # "" /\ row.keywords # <<>>

\* is_active = row[7].upper() if len(row) > 7 else 'Y'; skipped unless 'Y'
FlagUpper(f) == IF f = "y" THEN "Y" ELSE f

RowEnabled(row) == (IF row.len > 7 THEN FlagUpper(row.flag) ELSE "Y") = "Y"

\* kw.strip()
Strip(kw) == IF kw = " beatles" THEN "beatles" ELSE kw

\* [kw.strip() for kw in row[1].split(',')]
Keywords(row) == [i \in 1..Len(row.keywords) |-> Strip(row.keywords[i])]

\* try: increase = int(row[4]) if row[4] else 10 / except: increase = 10
Increase(row) == IF row.pct.k = "int" THEN row.pct.n ELSE 10

\* The dict built from a row.
RuleOfRow(row) ==
    [item             |-> row.item,
     keywords         |-> Keywords(row),
     event            |-> row.event,
     tier             |-> row.tier,
     increase_percent |-> Increase(row),
     start_date       |-> row.start_date,
     end_date         |-> row.end_date]

\* `start_date and end_date and start_date <= today <= end_date`
RowInWindow(row, t) ==
    /\ row.start_date # EmptyStr /\ row.end_date # EmptyStr
    /\ LeqYmd(row.start_date, t) /\ LeqYmd(t, row.end_date)

RECURSIVE MapRows(_)
MapRows(rows) ==
    IF rows = <<>> THEN <<>>
    ELSE <<RuleOfRow(Head(rows))>> \o MapRows(Tail(rows))

\* The list `active` of the sheet path.
ActiveFromRows(rows, t) ==
    MapRows(SelectSeq(rows, LAMBDA row :
        RowUsable(row) /\ RowEnabled(row) /\ RowInWindow(row, t)))

\* The list `all_rules` written to pricing_rules.json.
AllRulesFromRows(rows) ==
    MapRows(SelectSeq(rows, LAMBDA row : RowUsable(row) /\ RowEnabled(row)))

\* app_listings.get_active_rules, sheet path: int(row[4]) is not guarded, so
\* a non-numeric cell in a row that is in its window raises, and the bare
\* except sends the call to the JSON fallback.
AppSheetRaises(rows, t) ==
    \E i \in 1..Len(rows) :
        /\ RowUsable(rows[i]) /\ RowEnabled(rows[i]) /\ RowInWindow(rows[i], t)
        /\ rows[i].pct.k = "text"

\* sync_sheet_to_ebay.parse_rows reads the control sheet (ENABLED first,
\* PRICE_CHANGE_% tenth): `int(row[9]) if len(row) > 9 and row[9] else 0`
\* raises ValueError on other text; read_rules_from_sheet then returns [].
ControlEnabled(row) == row.flag = "TRUE"

ParseRowsRaises(rows) ==
    \E i \in 1..Len(rows) : ControlEnabled(rows[i]) /\ rows[i].pct.k = "text"

ControlIncrease(row) == IF row.pct.k = "int" THEN row.pct.n ELSE 0

\* The dict parse_rows builds from an enabled row.
ControlRule(row) ==
    [enabled          |-> TRUE,
     category         |-> "Music",
     artist           |-> row.item,
     event            |-> row.event,
     start_date       |-> row.start_date,
     end_date         |-> row.end_date,
     tier             |-> row.tier,
     increase_percent |-> ControlIncrease(row),
     keywords         |-> Keywords(row)]

RECURSIVE MapControl(_)
MapControl(rows) ==
    IF rows = <<>> THEN <<>>
    ELSE <<ControlRule(Head(rows))>> \o MapControl(Tail(rows))

\* read_rules_from_sheet: parse_rows(rows), or [] on any exception
ReadRulesFromSheet(rows) ==
    IF ParseRowsRaises(rows) THEN <<>>
    ELSE MapControl(SelectSeq(rows, ControlEnabled))

\* export_to_json: the list dumped to pricing_rules.json
ExportToJson(rules) ==
    [i \in 1..Len(rules) |->
        [item             |-> rules[i].artist,
         keywords         |-> rules[i].keywords,
         event            |-> rules[i].event,
         tier             |-> rules[i].tier,
         increase_percent |-> rules[i].increase_percent,
         start_date       |-> rules[i].start_date,
         end_date         |-> rules[i].end_date,
         category         |-> rules[i].category]]

\* filter_active_rules
FilterActiveRules(rules, t) == SelectSeq(rules, LAMBDA r : IsActive(r, t))

-----------------------------------------------------------------------------
(***************************************************************************)
(* Rule repository: the state machine                                      *)
(***************************************************************************)

MaxRows == 2
MaxOps  == 3

\* The windows the rows carry and the days the scripts run on.
W1Start == <<2025, 7, 6>>
W1End   == <<2025, 7, 22>>
W2Start == <<2025, 12, 1>>
W2End   == <<2025, 12, 10>>
Todays  == {<<2025, 7, 5>>, <<2025, 7, 20>>, <<2025, 12, 5>>}

\* Rows of the sheet: a plain one, one without the flag cell and with an
\* empty increase, one with a non-numeric increase, a disabled one, one cut
\* short before the end date, one without a start date.
SheetRows ==
    {Row(8, "Lennon", <<"lennon", " beatles">>, "MAJOR", IntCell(25), W1Start, W1End, "Y"),
     Row(7, "Apollo", <<"apollo">>, "PEAK", EmptyCell, W1Start, W1End, ""),
     Row(8, "Warhol", <<"warhol">>, "MINOR", TextCell, W2Start, W2End, "y"),
     Row(8, "Disney", <<"disney">>, "MEDIUM", IntCell(15), W1Start, W1End, "N"),
     Row(6, "Mickey", <<"mickey">>, "MEDIUM", IntCell(15), W1Start, EmptyStr, ""),
     Row(8, "Ali", <<"ali">>, "MEDIUM", IntCell(15), EmptyStr, W1End, "Y")}

RECURSIVE RowLists(_)
RowLists(n) ==
    IF n = 0 THEN {<<>>}
    ELSE RowLists(n - 1)
         \cup {Append(rs, r) : rs \in {x \in RowLists(n - 1) : Len(x) = n - 1},
                               r \in SheetRows}

Sheets == RowLists(MaxRows)

\* Contents of the control sheet sync_sheet_to_ebay reads.
ControlSheets ==
    {<<Row(12, "Lennon", <<"lennon">>, "MAJOR", IntCell(25), W1Start, W1End, "TRUE"),
       Row(12, "Warhol", <<"warhol">>, "MINOR", IntCell(5), W2Start, W2End, "TRUE")>>,
     <<Row(12, "Lennon", <<"lennon">>, "MAJOR", IntCell(25), W1Start, W1End, "TRUE"),
       Row(12, "Warhol", <<"warhol">>, "MINOR", TextCell, W2Start, W2End, "TRUE")>>,
     <<Row(12, "Disney", <<"disney">>, "MEDIUM", EmptyCell, W1Start, W1End, "FALSE")>>}

\* pricing_rules.json
Absent_File    == [state |-> "absent",    rules |-> <<>>]
MalformedFile  == [state |-> "malformed", rules |-> <<>>]
OkFile(rules)  == [state |-> "ok",        rules |-> rules]

Result(call, path, e, rs) == [call |-> call, path |-> path, raised |-> e, active |-> rs]

NoResult == Result("none", "", "", <<>>)

NoRead == [some |-> FALSE, rules |-> <<>>]

Read(rules) == [some |-> TRUE, rules |-> rules]

InitRepo ==
    /\ rpc = "ready"
    /\ sheet \in Sheets
    /\ rules_file = Absent_File
    /\ rtoday \in Todays
    /\ result = NoResult
    /\ last_read = NoRead
    /\ ops = 0

\* get_active_pricing_windows (v = "main": ebay_auto_pricing, v = "pa":
\* ebay_auto_pricing_pa), the sheet read and the backup write going through.
GetActiveSheet(v) ==
    /\ rpc = "ready" /\ ops < MaxOps
    /\ result' = Result(v, "sheet", "", ActiveFromRows(sheet, rtoday))
    /\ rules_file' = OkFile(AllRulesFromRows(sheet))
    /\ last_read' = Read(AllRulesFromRows(sheet))
    /\ rpc' = "returned"
    /\ ops' = ops + 1
    /\ UNCHANGED <<sheet, rtoday, cvars, wvars, pvars, bvars, dvars>>

\* The same with the backup write raising (swallowed by `except: pass`):
\* open() failed and the file is as it was, or the dump failed after open()
\* had truncated it.
GetActiveSheetBackupFails(v) ==
    /\ rpc = "ready" /\ ops < MaxOps
    /\ result' = Result(v, "sheet", "", ActiveFromRows(sheet, rtoday))
    /\ rules_file' \in {rules_file, MalformedFile}
    /\ last_read' = Read(AllRulesFromRows(sheet))
    /\ rpc' = "returned"
    /\ ops' = ops + 1
    /\ UNCHANGED <<sheet, rtoday, cvars, wvars, pvars, bvars, dvars>>

\* json.load of the fallback file, then the filter of variant v.
FallbackOf(v, file, t) ==
    IF file.state = "absent" THEN Result(v, "fallback", "", <<>>)
    ELSE IF file.state = "malformed" THEN Result(v, "fallback", "JSONDecodeError", <<>>)
    ELSE LET l == IF v = "main" THEN LoadFallback(file.rules, t)
                  ELSE LoadFallbackPA(file.rules, t)
         IN  Result(v, "fallback", l.raised, l.active)

\* get_active_pricing_windows with no credentials or a failing sheet read.
GetActiveFallback(v) ==
    /\ rpc = "ready" /\ ops < MaxOps
    /\ result' = FallbackOf(v, rules_file, rtoday)
    /\ rpc' = "returned"
    /\ ops' = ops + 1
    /\ UNCHANGED <<sheet, rules_file, rtoday, last_read, cvars, wvars, pvars, bvars, dvars>>

\* The dict app_listings.get_active_rules builds from a row.
AppRuleOfRow(row) ==
    [item             |-> row.item,
     event            |-> row.event,
     tier             |-> row.tier,
     increase_percent |-> Increase(row),
     start_date       |-> row.start_date,
     end_date         |-> row.end_date]

\* app_listings.get_active_rules, fallback: any exception gives [].
AppFallback(file, t) ==
    IF file.state # "ok" \/ LoadFallbackPA(file.rules, t).raised # ""
    THEN Result("app", "fallback", "", <<>>)
    ELSE Result("app", "fallback", "", LoadFallbackPA(file.rules, t).active)

\* app_listings.get_active_rules with the sheet readable.
AppGetActiveRules ==
    /\ rpc = "ready" /\ ops < MaxOps
    /\ result' =
         IF AppSheetRaises(sheet, rtoday) THEN AppFallback(rules_file, rtoday)
         ELSE LET rows == SelectSeq(sheet, LAMBDA row :
                     RowUsable(row) /\ RowEnabled(row) /\ RowInWindow(row, rtoday))
              IN  Result("app", "sheet", "",
                         [i \in 1..Len(rows) |-> AppRuleOfRow(rows[i])])
    /\ rpc' = "returned"
    /\ ops' = ops + 1
    /\ UNCHANGED <<sheet, rules_file, rtoday, last_read, cvars, wvars, pvars, bvars, dvars>>

\* generate_3dsellers_rules __main__: the generated rules are dumped to
\* pricing_rules.json.
GenerateRules ==
    /\ rpc = "ready" /\ ops < MaxOps
    /\ \E s \in {<<Word("July"), Number(20)>>, <<Glued(12, "/08")>>}, tier \in {"MAJOR"} :
         rules_file' = OkFile(<<GeneratedRule(tier,
             CalculatePricingWindow(s, tier, [date |-> rtoday, tod |-> 43200]))>>)
    /\ ops' = ops + 1
    /\ UNCHANGED <<rpc, sheet, rtoday, result, last_read, cvars, wvars, pvars, bvars, dvars>>

\* sync_sheet_to_ebay main(): the control sheet is read, filtered to the
\* active windows and exported.
SyncSheetToEbay ==
    /\ rpc = "ready" /\ ops < MaxOps
    /\ \E rows \in ControlSheets :
         /\ rules_file' = OkFile(ExportToJson(
                FilterActiveRules(ReadRulesFromSheet(rows), rtoday)))
         /\ last_read' = IF ParseRowsRaises(rows) THEN last_read
                         ELSE Read(ExportToJson(ReadRulesFromSheet(rows)))
    /\ ops' = ops + 1
    /\ UNCHANGED <<rpc, sheet, rtoday, result, cvars, wvars, pvars, bvars, dvars>>

\* The same with no credentials or the read failing: rules = [].
SyncSheetToEbayReadFails ==
    /\ rpc = "ready" /\ ops < MaxOps
    /\ rules_file' = OkFile(ExportToJson(FilterActiveRules(<<>>, rtoday)))
    /\ ops' = ops + 1
    /\ UNCHANGED <<rpc, sheet, rtoday, result, last_read, cvars, wvars, pvars, bvars, dvars>>

\* The operator edits the sheet.
EditSheet ==
    /\ rpc = "ready" /\ ops < MaxOps
    /\ sheet' \in Sheets \ {sheet}
    /\ ops' = ops + 1
    /\ UNCHANGED <<rpc, rules_file, rtoday, result, last_read, cvars, wvars, pvars, bvars, dvars>>

\* The caller goes on with the list it received.
Continue ==
    /\ rpc = "returned"
    /\ rpc' = "ready"
    /\ UNCHANGED <<sheet, rules_file, rtoday, result, last_read, ops, cvars, wvars, pvars, bvars, dvars>>

NextRepo ==
    \/ \E v \in {"main", "pa"} : GetActiveSheet(v)
    \/ \E v \in {"main", "pa"} : GetActiveSheetBackupFails(v)
    \/ \E v \in {"main", "pa"} : GetActiveFallback(v)
    \/ AppGetActiveRules
    \/ GenerateRules
    \/ SyncSheetToEbayReadFails
    \/ SyncSheetToEbay
    \/ EditSheet
    \/ Continue

-----------------------------------------------------------------------------
(***************************************************************************)
(* Rule repository: properties                                             *)
(***************************************************************************)

RuleLoadReturned == rpc = "returned" /\ result.call \in {"main", "pa"}

\* C12: get_active_pricing_windows never raises: whatever the sheet read
\* does it returns a list, the empty list when pricing_rules.json is absent
\* on the fallback path, and run_pricing_update plans nothing from an empty
\* rule list.
C12_LoadNeverRaises ==
    RuleLoadReturned
    => /\ result.raised = ""
       /\ (result.path = "fallback" /\ rules_file.state = "absent")
          => result.active = <<>>
       /\ result.active = <<>>
          => \A id \in DOMAIN Titles, p \in Prices :
                BuildPlan(<<[item_id |-> id, title |-> Titles[id],
                             current_price |-> p]>>, result.active) = <<>>

\* C13: pricing_rules.json holds the full rule set of the most recent
\* successful read of the primary source, and is written by nothing else:
\* before any such read it is as it was at the start.
C13_FallbackIsLastRead ==
    /\ ~last_read.some => rules_file = Absent_File
    /\ last_read.some => rules_file = OkFile(last_read.rules)

\* The window of a stored rule or row contains day t, as calendar dates.
WindowContains(r, t) ==
    /\ IsDate(r.start_date) /\ IsDate(r.end_date)
    /\ Ymd2Ord(r.start_date) <= Ymd2Ord(t)
    /\ Ymd2Ord(t) <= Ymd2Ord(r.end_date)

\* C14: the list returned is exactly the enabled rules of the source read
\* (the usable rows of the sheet, or the rules of pricing_rules.json) whose
\* window satisfies start_date <= today <= end_date, in both variants and on
\* both paths; an expired rule is not in it, and the sheet keeps its rows.
C14_ActiveRuleFilter ==
    RuleLoadReturned
    => /\ result.raised = ""
       /\ result.path = "sheet"
          => result.active = MapRows(SelectSeq(sheet, LAMBDA row :
                 RowUsable(row) /\ RowEnabled(row) /\ WindowContains(row, rtoday)))
       /\ result.path = "fallback"
          => result.active = SelectSeq(rules_file.rules,
                                       LAMBDA r : WindowContains(r, rtoday))
       /\ \A i \in 1..Len(result.active) :
             Ymd2Ord(rtoday) <= Ymd2Ord(result.active[i].end_date)

\* The policy default of a row's tier where its increase cell is no number.
CoercedIncrease(row) ==
    IF row.pct.k = "int" THEN row.pct.n ELSE PRICING_TIERS[row.tier].increase

ActiveRows == SelectSeq(sheet, LAMBDA row :
                 RowUsable(row) /\ RowEnabled(row) /\ RowInWindow(row, rtoday))

\* C15: a sheet load keeps a row whose increase cell is empty or not a
\* number, gives it the increase of its tier in the policy table (MINOR 5,
\* MEDIUM 15, MAJOR 25, PEAK 35), and still returns the other rows.
C15_BadIncreaseCoerced ==
    (rpc = "returned" /\ (result.path = "sheet" \/ result.call = "app"))
    => /\ result.path = "sheet"
       /\ Len(result.active) = Len(ActiveRows)
       /\ \A i \in 1..Len(ActiveRows) :
             /\ result.active[i].item = ActiveRows[i].item
             /\ result.active[i].increase_percent = CoercedIncrease(ActiveRows[i])

-----------------------------------------------------------------------------
(***************************************************************************)
(* Listings dashboard: app_listings.update_category_pricing                *)
(***************************************************************************)

\* Prices are cents; adjustment_value is counted in hundredths (of a
\* percent, or of a dollar).
AdjustmentTypes ==
    {"percent_increase", "percent_decrease", "fixed_increase",
     "fixed_decrease", "set_price", "other"}

\* new_price before rounding, as a fraction num / den of a cent.
Adjusted(old_price, type, v) ==
    IF type = "percent_increase" THEN [num |-> old_price * (10000 + v), den |-> 10000]
    ELSE IF type = "percent_decrease" THEN [num |-> old_price * (10000 - v), den |-> 10000]
    ELSE IF type = "fixed_increase" THEN [num |-> old_price + v, den |-> 1]
    ELSE IF type = "fixed_decrease" THEN [num |-> old_price - v, den |-> 1]
    ELSE IF type = "set_price" THEN [num |-> v, den |-> 1]
    ELSE [num |-> old_price, den |-> 1]

\* round(new_price, 2): the nearest cent; where the exact value lies half
\* way between two cents the binary float may lie on either side.
RoundCents(x) ==
    LET q == x.num \div x.den
        r == x.num % x.den
    IN  IF 2 * r < x.den THEN {q}
        ELSE IF 2 * r > x.den THEN {q + 1}
        ELSE {q, q + 1}

\* A plausible slip: no minimum price.
BulkClamp_None(n) == n

\* max(0.99, ...)
BulkClamp(n) == IF n < 99 THEN 99 ELSE n

\* The values new_price can take for a listing.
BulkNewPrices(old_price, type, v) ==
    {BulkClamp(n) : n \in RoundCents(Adjusted(old_price, type, v))}

\* `abs(new_price - old_price) < 0.01`: true of equal prices, false of
\* prices two cents apart or more; for prices one cent apart the float
\* difference is below 0.01 for some pairs (19.98 and 19.99) and not for
\* others.
SkipChoices(new_price, old_price) ==
    IF new_price = old_price THEN {TRUE}
    ELSE IF new_price - old_price \in {1, 0 - 1} THEN {TRUE, FALSE}
    ELSE {FALSE}

\* What a ReviseFixedPriceItem call can come to: Ack Success/Warning, any
\* other answer, an exception of requests.post.
PostOutcomes == {"ok", "fail", "raise"}

Call(item_id, price) == [item_id |-> item_id, price |-> price]

\* One pass of `for item_id in item_ids` from the loop state st.
BulkStep(st, item_id, listings_by_id, type, v) ==
    IF item_id \notin DOMAIN listings_by_id
    THEN {[st EXCEPT !.failed = @ + 1]}
    ELSE LET old_price == listings_by_id[item_id]
         IN  UNION {
               UNION {
                 IF skip THEN {st}
                 ELSE {[shop    |-> IF o = "ok" THEN [st.shop EXCEPT ![item_id] = new_price]
                                    ELSE st.shop,
                        sent    |-> Append(st.sent, Call(item_id, new_price)),
                        updated |-> IF o = "ok" THEN st.updated + 1 ELSE st.updated,
                        failed  |-> IF o = "ok" THEN st.failed ELSE st.failed + 1]
                       : o \in PostOutcomes}
                 : skip \in SkipChoices(new_price, old_price)}
               : new_price \in BulkNewPrices(old_price, type, v)}

RECURSIVE BulkLoop(_, _, _, _, _)
BulkLoop(st, item_ids, listings_by_id, type, v) ==
    IF item_ids = <<>> THEN {st}
    ELSE UNION {BulkLoop(s2, Tail(item_ids), listings_by_id, type, v)
                  : s2 \in BulkStep(st, Head(item_ids), listings_by_id, type, v)}

MaxReqs == 1

ShopIds == {"A1", "B2"}

\* Requests: item ids (one of them unknown to the marketplace), an
\* adjustment type and a value: 0, 0.01, 0.50, 10.00 or 200.00.
ItemIdLists == {<<>>, <<"A1">>, <<"A1", "B2">>, <<"B2", "ZZ">>}

AdjustmentValues == {0, 1, 50, 1000, 20000}

Request(ids, type, v) ==
    [item_ids |-> ids, adjustment_type |-> type, adjustment_value |-> v]

NoRequest == Request(<<>>, "", 0)

Response(ok, e, u, f, n) ==
    [success |-> ok, error |-> e, updated |-> u, failed |-> f, total |-> n]

NoResponse == Response(FALSE, "pending", 0, 0, 0)

\* _cache = {'listings': [], 'last_fetch': None, ...}; age is the wall-clock
\* time in seconds since last_fetch, where there is one.
StaleCache == [has_fetch |-> FALSE, age |-> 0, listings |-> <<>>]

\* timedelta.seconds: the seconds within the day of a non-negative
\* difference, its whole days being in timedelta.days.
TimedeltaSeconds(elapsed) == elapsed % 86400

\* `if not force and _cache['last_fetch']: ... if age < 300 and
\* _cache['listings']: return _cache['listings']`
CacheHit(force) ==
    /\ ~force
    /\ cache.has_fetch
    /\ TimedeltaSeconds(cache.age) < 300
    /\ cache.listings # <<>>

\* What fetch_listings(force) returns.
FetchListings(force) == IF CacheHit(force) THEN cache.listings ELSE shop

\* The way fetch_listings(force) returns.
FetchPath(force) == IF CacheHit(force) THEN "cache" ELSE "marketplace"

\* _cache once fetch_listings(force) has returned.
CacheAfterFetch(force) ==
    IF CacheHit(force) THEN cache
    ELSE [has_fetch |-> TRUE, age |-> 0, listings |-> shop]

\* Times since the last fetch at which the dashboard is looked at again:
\* just under and at five minutes, a day, a day and five minutes.
Ages == {299, 300, 86400, 86700}

InitBulk ==
    /\ bpc = "ready"
    /\ shop \in [ShopIds -> {50, 1999, 2000}]
    /\ cache = StaleCache
    /\ fetch_path = "none"
    /\ bulk_req = NoRequest
    /\ used = <<>>
    /\ sent = <<>>
    /\ response = NoResponse
    /\ breqs = 0

\* fetch_listings(): the cached list if it is fresh and not empty, else the
\* listings of the marketplace.
FetchedListings == FetchListings(FALSE)

\* GET /api/listings and the other views: fetch_listings() fills the cache.
ViewListings ==
    /\ bpc = "ready"
    /\ cache' = CacheAfterFetch(FALSE)
    /\ fetch_path' = FetchPath(FALSE)
    /\ UNCHANGED <<bpc, shop, bulk_req, used, sent, response, breqs, cvars, wvars, pvars, rvars, dvars>>

\* GET /api/refresh: fetch_listings(force=True).
Refresh ==
    /\ bpc = "ready"
    /\ cache' = CacheAfterFetch(TRUE)
    /\ fetch_path' = FetchPath(TRUE)
    /\ UNCHANGED <<bpc, shop, bulk_req, used, sent, response, breqs, cvars, wvars, pvars, rvars, dvars>>

\* Wall-clock time passes: five minutes, a day, more.
CacheExpires ==
    /\ bpc = "ready"
    /\ cache.has_fetch
    /\ \E a \in Ages : a > cache.age /\ cache' = [cache EXCEPT !.age = a]
    /\ fetch_path' = "none"
    /\ UNCHANGED <<bpc, shop, bulk_req, used, sent, response, breqs,
                   cvars, wvars, pvars, rvars, dvars>>

\* POST /api/run-pricing: the pricing script is run as a subprocess (it may
\* raise a price) and last_fetch is cleared.
RunPricing ==
    /\ bpc = "ready" /\ breqs < MaxReqs
    /\ \/ shop' = shop
       \/ \E id \in ShopIds : shop' = [shop EXCEPT ![id] = NewPrice(@, 25)]
    /\ cache' = [cache EXCEPT !.has_fetch = FALSE, !.age = 0]
    /\ fetch_path' = "none"
    /\ breqs' = breqs + 1
    /\ UNCHANGED <<bpc, bulk_req, used, sent, response,
                   cvars, wvars, pvars, rvars, dvars>>

\* POST /api/update-category-pricing refused: no item ids, or a value of 0.
UpdateCategoryPricingRefused ==
    /\ bpc = "ready" /\ breqs < MaxReqs
    /\ \E ids \in ItemIdLists, type \in AdjustmentTypes, v \in AdjustmentValues :
         /\ ids = <<>> \/ v = 0
         /\ bulk_req' = Request(ids, type, v)
         /\ response' = Response(FALSE, IF ids = <<>> THEN "No items provided"
                                        ELSE "No adjustment value", 0, 0, 0)
    /\ used' = <<>>
    /\ sent' = <<>>
    /\ bpc' = "done"
    /\ breqs' = breqs + 1
    /\ fetch_path' = "none"
    /\ UNCHANGED <<shop, cache, cvars, wvars, pvars, rvars, dvars>>

\* POST /api/update-category-pricing carried out: the listings are fetched,
\* every item id is gone through, the cache is cleared.
UpdateCategoryPricing ==
    /\ bpc = "ready" /\ breqs < MaxReqs
    /\ \E ids \in ItemIdLists \ {<<>>}, type \in AdjustmentTypes,
          v \in AdjustmentValues \ {0} :
         \E st \in BulkLoop([shop |-> shop, sent |-> <<>>, updated |-> 0, failed |-> 0],
                            ids, FetchedListings, type, v) :
            /\ bulk_req' = Request(ids, type, v)
            /\ shop' = st.shop
            /\ sent' = st.sent
            /\ response' = Response(TRUE, "", st.updated, st.failed, Len(ids))
    /\ used' = FetchedListings
    /\ cache' = [has_fetch |-> FALSE, age |-> 0, listings |-> FetchedListings]
    /\ fetch_path' = "none"
    /\ bpc' = "done"
    /\ breqs' = breqs + 1
    /\ UNCHANGED <<cvars, wvars, pvars, rvars, dvars>>

\* The page takes the answer.
BulkAnswered ==
    /\ bpc = "done"
    /\ bpc' = "ready"
    /\ UNCHANGED <<shop, cache, fetch_path, bulk_req, used, sent, response, breqs,
                   cvars, wvars, pvars, rvars, dvars>>

NextBulk ==
    \/ ViewListings
    \/ Refresh
    \/ CacheExpires
    \/ RunPricing
    \/ UpdateCategoryPricingRefused
    \/ UpdateCategoryPricing
    \/ BulkAnswered

-----------------------------------------------------------------------------
(***************************************************************************)
(* Listings dashboard: properties                                          *)
(***************************************************************************)

\* x lies within half a cent of n.
IsRounding(n, x) ==
    /\ 2 * (n * x.den - x.num) <= x.den
    /\ 2 * (x.num - n * x.den) <= x.den

\* C18: every update sent is for a listed item id of the request, at the
\* price max(0.99, round(adjusted, 2)) of its adjustment type and listing
\* price, never below 0.99 and never within a cent of the listing price;
\* set_price 0.50 on a listing at 20.00 sends 0.99.
C18_BulkAdjustmentClamped ==
    bpc = "done"
    => \A i \in 1..Len(sent) :
          LET c == sent[i]
              x == Adjusted(used[c.item_id], bulk_req.adjustment_type,
                            bulk_req.adjustment_value)
          IN  /\ \E k \in 1..Len(bulk_req.item_ids) : bulk_req.item_ids[k] = c.item_id
              /\ c.item_id \in DOMAIN used
              /\ c.price >= 99
              /\ \/ IsRounding(c.price, x)
                 \/ c.price = 99 /\ \E n \in 0..98 : IsRounding(n, x)
                 \/ c.price = 99 /\ x.num < 0
              /\ c.price # used[c.item_id]
              /\ (bulk_req.adjustment_type = "set_price"
                     /\ bulk_req.adjustment_value = 50 /\ used[c.item_id] = 2000)
                 => c.price = 99
              /\ \A j \in 1..Len(sent) : sent[j].item_id = c.item_id => j = i

\* C27: fetch_listings(force=False) returns the cached snapshot only when
\* the cache is not empty and the last fetch is less than 300 seconds old;
\* whenever 300 seconds or more have passed since the last fetch, or a
\* price-changing endpoint has cleared last_fetch since, or force is true,
\* it has fetched from the marketplace.
C27_CacheFreshness ==
    /\ fetch_path = "cache"
       => /\ cache.has_fetch
          /\ cache.age < 300
          /\ cache.listings # <<>>
    /\ fetch_path = "marketplace"
       => cache = [has_fetch |-> TRUE, age |-> 0, listings |-> shop]

C18_Witness ==
    /\ bpc = "done"
    /\ bulk_req.adjustment_type = "set_price"
    /\ bulk_req.adjustment_value = 50
    /\ "A1" \in DOMAIN used
    /\ used["A1"] = 2000
    /\ \E i \in 1..Len(sent) : sent[i] = Call("A1", 99)

-----------------------------------------------------------------------------
(***************************************************************************)
(* Date parsers: strings                                                   *)
(***************************************************************************)

\* Date strings are strings; a character is a string of length one.
DigitChars == <<"0", "1", "2", "3", "4", "5", "6", "7", "8", "9">>

UpperCase ==
    <<"A", "B", "C", "D", "E", "F", "G", "H", "I", "J", "K", "L", "M",
      "N", "O", "P", "Q", "R", "S", "T", "U", "V", "W", "X", "Y", "Z">>

LowerCase ==
    <<"a", "b", "c", "d", "e", "f", "g", "h", "i", "j", "k", "l", "m",
      "n", "o", "p", "q", "r", "s", "t", "u", "v", "w", "x", "y", "z">>

CharAt(s, i) == SubSeq(s, i, i)

\* \d
IsDigit(c) == \E i \in 1..10 : DigitChars[i] = c

\* \w
IsWordChar(c) ==
    \/ IsDigit(c)
    \/ c = "_"
    \/ \E i \in 1..26 : UpperCase[i] = c \/ LowerCase[i] = c

\* \s
IsSpace(c) == c = " "

\* The end of the longest run of characters satisfying P that starts at
\* position i (i - 1 when there is none): a greedy P+ or P*.
RunEnd(s, i, P(_)) ==
    CHOOSE j \in (i - 1)..Len(s) :
        /\ \A k \in i..j : P(CharAt(s, k))
        /\ j = Len(s) \/ ~P(CharAt(s, j + 1))

\* int() of a string of digits.
RECURSIVE IntOf(_)
IntOf(s) ==
    IF s = "" THEN 0
    ELSE 10 * IntOf(SubSeq(s, 1, Len(s) - 1))
         + (CHOOSE i \in 1..10 : DigitChars[i] = CharAt(s, Len(s))) - 1

CharLower(c) ==
    IF \E i \in 1..26 : UpperCase[i] = c
    THEN LowerCase[CHOOSE i \in 1..26 : UpperCase[i] = c]
    ELSE c

\* str.lower()
RECURSIVE StrLower(_)
StrLower(s) ==
    IF s = "" THEN "" ELSE CharLower(CharAt(s, 1)) \o StrLower(Tail(s))

\* str.strip()
RECURSIVE StrStrip(_)
StrStrip(s) ==
    IF s = "" THEN ""
    ELSE IF IsSpace(CharAt(s, 1)) THEN StrStrip(Tail(s))
    ELSE IF IsSpace(CharAt(s, Len(s))) THEN StrStrip(SubSeq(s, 1, Len(s) - 1))
    ELSE s

\* s.replace(old, ""): every occurrence of old, left to right, is dropped.
RECURSIVE Replace(_, _)
Replace(s, old) ==
    IF Len(s) < Len(old) THEN s
    ELSE IF SubSeq(s, 1, Len(old)) = old
         THEN Replace(SubSeq(s, Len(old) + 1, Len(s)), old)
         ELSE CharAt(s, 1) \o Replace(Tail(s), old)

\* `pattern in s`
StrIn(pattern, s) ==
    \E i \in 0..(Len(s) - Len(pattern)) :
        SubSeq(s, i + 1, i + Len(pattern)) = pattern

(***************************************************************************)
(* Date parsers: datetime.strptime                                         *)
(***************************************************************************)

\* %d and %m: a run of one or two digits that reaches to position `last`
\* and is a number of 1..hi; 0 where the directive does not match.
NumberAt(s, i, last, hi) ==
    IF /\ i <= last
       /\ last - i + 1 <= 2
       /\ \A k \in i..last : IsDigit(CharAt(s, k))
       /\ IntOf(SubSeq(s, i, last)) \in 1..hi
    THEN IntOf(SubSeq(s, i, last))
    ELSE 0

\* "<month directive> %d": a month name (in any case), whitespace, the day.
MonthDay(s, months) ==
    LET M == {n \in DOMAIN months :
                /\ Len(s) > Len(n)
                /\ StrLower(SubSeq(s, 1, Len(n))) = StrLower(n)
                /\ IsSpace(CharAt(s, Len(n) + 1))
                /\ NumberAt(s, RunEnd(s, Len(n) + 1, IsSpace) + 1, Len(s), 31) # 0}
    IN  IF M = {} THEN None
        ELSE LET n == CHOOSE n \in M : TRUE
                 d == NumberAt(s, RunEnd(s, Len(n) + 1, IsSpace) + 1, Len(s), 31)
             IN  IF ValidDate(StrptimeYear, months[n], d) THEN <<months[n], d>> ELSE None

\* "%d <month directive>"
DayMonth(s, months) ==
    LET e == RunEnd(s, 1, IsDigit)
        b == RunEnd(s, e + 1, IsSpace)
        d == NumberAt(s, 1, e, 31)
        M == {n \in DOMAIN months : StrLower(SubSeq(s, b + 1, Len(s))) = StrLower(n)}
    IN  IF d = 0 \/ b = e \/ M = {} THEN None
        ELSE LET n == CHOOSE n \in M : TRUE
             IN  IF ValidDate(StrptimeYear, months[n], d) THEN <<months[n], d>> ELSE None

\* "%m/%d"
MonthSlashDay(s) ==
    LET e == RunEnd(s, 1, IsDigit)
        m == NumberAt(s, 1, e, 12)
        d == NumberAt(s, e + 2, Len(s), 31)
    IN  IF m # 0 /\ e < Len(s) /\ CharAt(s, e + 1) = "/" /\ d # 0
           /\ ValidDate(StrptimeYear, m, d)
        THEN <<m, d>> ELSE None

\* datetime.strptime(s, fmt) for the formats of the two parsers: the
\* <<month, day>> parsed, None for ValueError.
StrptimeFormat(s, fmt) ==
    CASE fmt = "%B %d" -> MonthDay(s, FullMonths)
      [] fmt = "%b %d" -> MonthDay(s, AbbrMonths)
      [] fmt = "%m/%d" -> MonthSlashDay(s)
      [] fmt = "%d %B" -> DayMonth(s, FullMonths)
      [] fmt = "%d %b" -> DayMonth(s, AbbrMonths)
      [] OTHER -> None

(***************************************************************************)
(* Date parsers: sync_death_nyc.parse_date_string                          *)
(***************************************************************************)

\* re.match(r'(\w+)\s+(\d+)-\d+', date_str): "<group 1> <group 2>" on a
\* match, date_str otherwise.
RangeMatch(s) ==
    LET w == RunEnd(s, 1, IsWordChar)
        b == RunEnd(s, w + 1, IsSpace)
        d == RunEnd(s, b + 1, IsDigit)
    IN  IF /\ w >= 1 /\ b > w /\ d > b
           /\ d + 2 <= Len(s)
           /\ CharAt(s, d + 1) = "-"
           /\ IsDigit(CharAt(s, d + 2))
        THEN SubSeq(s, 1, w) \o " " \o SubSeq(s, b + 1, d)
        ELSE s

\* re.match(r'(\w+)\s+(\d+)\s*-\s*(\w+\s+)?\d+', date_str), likewise.
RangeMatch2(s) ==
    LET w  == RunEnd(s, 1, IsWordChar)
        b  == RunEnd(s, w + 1, IsSpace)
        d  == RunEnd(s, b + 1, IsDigit)
        b2 == RunEnd(s, d + 1, IsSpace)
        x  == RunEnd(s, b2 + 2, IsSpace) + 1
        w2 == RunEnd(s, x, IsWordChar)
        b3 == RunEnd(s, w2 + 1, IsSpace)
    IN  IF /\ w >= 1 /\ b > w /\ d > b
           /\ b2 + 1 <= Len(s)
           /\ CharAt(s, b2 + 1) = "-"
           /\ x <= Len(s)
           /\ \/ IsDigit(CharAt(s, x))
              \/ /\ w2 >= x /\ b3 > w2 /\ b3 < Len(s)
                 /\ IsDigit(CharAt(s, b3 + 1))
        THEN SubSeq(s, 1, w) \o " " \o SubSeq(s, b + 1, d)
        ELSE s

\* The dict relative_dates, in its order: (month, weekday, occurrence) with
\* the weekday as datetime.weekday() counts it, Monday being 0.
relative_dates ==
    <<[pattern |-> "first monday in may",            month |-> 5,  weekday |-> 1, occurrence |-> 0],
      [pattern |-> "first monday of may",            month |-> 5,  weekday |-> 1, occurrence |-> 0],
      [pattern |-> "third saturday of september",    month |-> 9,  weekday |-> 5, occurrence |-> 2],
      [pattern |-> "third saturday in september",    month |-> 9,  weekday |-> 5, occurrence |-> 2],
      [pattern |-> "first thursday of december",     month |-> 12, weekday |-> 3, occurrence |-> 0],
      [pattern |-> "first tuesday of november",      month |-> 11, weekday |-> 1, occurrence |-> 0],
      [pattern |-> "first tuesday after november 1", month |-> 11, weekday |-> 1, occurrence |-> 0]>>

\* The dict vague_dates.
vague_dates ==
    <<[pattern |-> "early december", month |-> 12, day |-> 1],
      [pattern |-> "early january",  month |-> 1,  day |-> 1],
      [pattern |-> "early march",    month |-> 3,  day |-> 1],
      [pattern |-> "late december",  month |-> 12, day |-> 20],
      [pattern |-> "mid december",   month |-> 12, day |-> 15]>>

\* datetime.weekday(): Monday is 0, Sunday is 6.
Weekday(ymd) == (Ymd2Ord(ymd) + 6) % 7

\* first_day + timedelta(days=days_until + 7 * occurrence): at most 20 days
\* after the 1st, so within the month.
NthWeekday(year, month, weekday, occurrence) ==
    LET first_weekday == Weekday(<<year, month, 1>>)
        days_until    == (weekday - first_weekday + 7) % 7
    IN  <<year, month, 1 + days_until + 7 * occurrence>>

\* The index of the first entry of a pattern table whose pattern occurs in
\* lower_str, 0 if there is none.
FirstPattern(table, lower_str) ==
    IF \E i \in 1..Len(table) : StrIn(table[i].pattern, lower_str)
    THEN CHOOSE i \in 1..Len(table) :
            /\ StrIn(table[i].pattern, lower_str)
            /\ \A j \in 1..(i - 1) : ~StrIn(table[j].pattern, lower_str)
    ELSE 0

\* `for fmt in formats: try: ... return parsed.replace(year=year) except
\* ValueError: continue` and the final `return None`.
RECURSIVE TryFormats(_, _, _)
TryFormats(s, fmts, year) ==
    IF fmts = <<>> THEN None
    ELSE LET md == StrptimeFormat(s, Head(fmts))
         IN  IF md # None THEN <<year, md[1], md[2]>>
             ELSE TryFormats(s, Tail(fmts), year)

\* parse_date_string(date_str, year)
ParseDateStringOf(date_str, year) ==
    IF date_str = "" THEN None
    ELSE LET s1        == RangeMatch(StrStrip(date_str))
             s2        == RangeMatch2(s1)
             lower_str == StrLower(s2)
             r         == FirstPattern(relative_dates, lower_str)
             v         == FirstPattern(vague_dates, lower_str)
         IN  IF r # 0
             THEN NthWeekday(year, relative_dates[r].month,
                             relative_dates[r].weekday, relative_dates[r].occurrence)
             ELSE IF v # 0 THEN <<year, vague_dates[v].month, vague_dates[v].day>>
             ELSE IF \E n \in DOMAIN FullMonths : lower_str = StrLower(n)
             THEN <<year, FullMonths[CHOOSE n \in DOMAIN FullMonths :
                                        lower_str = StrLower(n)], 1>>
             ELSE TryFormats(s2, <<"%B %d", "%b %d", "%m/%d", "%d %B", "%d %b">>, year)

(***************************************************************************)
(* Date parsers: add_new_inventory.parse_date                              *)
(***************************************************************************)

\* .replace("st", "").replace("nd", "").replace("rd", "").replace("th", "")
StripOrdinals(s) == Replace(Replace(Replace(Replace(s, "st"), "nd"), "rd"), "th")

\* The list `formats` of parse_date, each as it is given to strptime.
RECURSIVE StrippedFormats(_)
StrippedFormats(fmts) ==
    IF fmts = <<>> THEN <<>>
    ELSE <<StripOrdinals(Head(fmts))>> \o StrippedFormats(Tail(fmts))

\* parse_date(date_str, year)
ParseDateOf(date_str, year) ==
    IF date_str = "" THEN None
    ELSE TryFormats(StripOrdinals(RangeMatch(StrStrip(date_str))),
                    StrippedFormats(<<"%B %d", "%b %d", "%m/%d", "%d %B", "%d %b",
                                      "%B %dst", "%B %dnd", "%B %drd", "%B %dth">>),
                    year)

(***************************************************************************)
(* Date parsers: the calls                                                 *)
(***************************************************************************)

\* The years the relative expressions are asked for: a full cycle of the
\* calendar.
ParseYears == 2020..2047

DayString(d) ==
    IF d < 10 THEN DigitChars[d + 1]
    ELSE DigitChars[(d \div 10) + 1] \o DigitChars[(d % 10) + 1]

\* The table's expressions as an event sheet writes them.
RelativeArgs ==
    {"first Monday in May", "First Monday of May", "third Saturday of September",
     "third Saturday in September", "first Thursday of December",
     "first Tuesday of November", "first Tuesday after November 1",
     "Met Gala (first Monday in May)"}

OrdinalSuffixes == {"", "st", "nd", "rd", "th"}

SuffixDays == {1, 2, 3, 4, 11, 12, 13, 21, 22, 23, 29, 30, 31}

\* "<Month> <d><suffix>" for the full and the abbreviated month names.
SuffixArgs ==
    {n \o " " \o DayString(d) \o x :
        n \in DOMAIN FullMonths \cup DOMAIN AbbrMonths,
        d \in SuffixDays, x \in OrdinalSuffixes}

OtherArgs ==
    {"", "July", "may", "early December", "Late December", "mid december",
     "July 18-21", "December 6 - 8", "July 18 - August 2", "12/08", "2/30",
     "20 July", "20 Jul", "  July 4 ", "July 32", "someday", "TBD 2025"}

InitDates ==
    /\ dpc = "call"
    /\ \/ date_arg \in RelativeArgs /\ year_arg \in ParseYears
       \/ date_arg \in SuffixArgs \cup OtherArgs /\ year_arg \in MinYear..MaxYear
    /\ parsed = None

\* sync_death_nyc: parse_date_string(date_str, year)
ParseDateString ==
    /\ dpc = "call"
    /\ parsed' = ParseDateStringOf(date_arg, year_arg)
    /\ dpc' = "parse_date_string"
    /\ UNCHANGED <<date_arg, year_arg, cvars, wvars, pvars, rvars, bvars>>

\* add_new_inventory: parse_date(date_str, year)
ParseDate ==
    /\ dpc = "call"
    /\ parsed' = ParseDateOf(date_arg, year_arg)
    /\ dpc' = "parse_date"
    /\ UNCHANGED <<date_arg, year_arg, cvars, wvars, pvars, rvars, bvars>>

NextDates ==
    \/ ParseDateString
    \/ ParseDate

-----------------------------------------------------------------------------
(***************************************************************************)
(* Date parsers: properties                                                *)
(***************************************************************************)

\* The date is the n-th day of that weekday in that month of the year asked
\* for (n = 1 for the first).
IsNthWeekday(ymd, year, month, weekday, n) ==
    /\ ymd # None
    /\ ymd[1] = year
    /\ ymd[2] = month
    /\ ymd[3] \in (7 * n - 6)..(7 * n)
    /\ Weekday(ymd) = weekday

\* C25: for every year, "first Monday in May" is a Monday among May 1..7,
\* "third Saturday of September" a Saturday among September 15..21, "first
\* Thursday of December" a Thursday among December 1..7 and "first Tuesday
\* of November" a Tuesday among November 1..7.
C25_RelativeExpressions ==
    dpc = "parse_date_string"
    => /\ date_arg = "first Monday in May"
          => IsNthWeekday(parsed, year_arg, 5, 0, 1)
       /\ date_arg = "third Saturday of September"
          => IsNthWeekday(parsed, year_arg, 9, 5, 3)
       /\ date_arg = "first Thursday of December"
          => IsNthWeekday(parsed, year_arg, 12, 3, 1)
       /\ date_arg = "first Tuesday of November"
          => IsNthWeekday(parsed, year_arg, 11, 1, 1)

\* C26: for every month name, every day the month has and every suffix
\* among st, nd, rd, th (or none), parse_date("<Month> <d><suffix>") is that
\* month and day of the year asked for, which is what "<Month> <d>" parses
\* to with nothing stripped: stripping leaves the month name alone and loses
\* no parseable date.
C26_OrdinalSuffixStripped ==
    dpc = "parse_date"
    => \A n \in DOMAIN FullMonths, d \in SuffixDays, x \in OrdinalSuffixes :
          (/\ date_arg = n \o " " \o DayString(d) \o x
           /\ ValidDate(StrptimeYear, FullMonths[n], d))
          => /\ StripOrdinals(n) = n
             /\ parsed = <<year_arg, FullMonths[n], d>>
             /\ parsed = ParseDateOf(n \o " " \o DayString(d), year_arg)

-----------------------------------------------------------------------------
(***************************************************************************)
(* Specifications                                                          *)
(***************************************************************************)

IdleConsensus ==
    /\ cpc = "idle"
    /\ pending = {}
    /\ results = <<>>
    /\ consensus = NoConsensus
    /\ rec = NoRec

IdleWindow ==
    /\ wpc = "idle"
    /\ event_date_str = <<>>
    /\ tier_arg = "MEDIUM"
    /\ now = [date |-> <<MinYear, 1, 1>>, tod |-> 0]
    /\ window = NoWindow
    /\ email = "pending"
    /\ rules_json = <<>>
    /\ loaded = NotLoaded

IdlePricing ==
    /\ ppc = "off"
    /\ market = <<>>
    /\ active_rules = <<>>
    /\ dry_run = TRUE
    /\ listings = <<>>
    /\ updates = <<>>
    /\ done_count = 0
    /\ success_count = 0
    /\ fail_count = 0
    /\ last_run = NeverRan
    /\ runs = 0
    /\ minute = 0
    /\ log_files = <<>>
    /\ outcomes = <<>>
    /\ run_results = <<>>
    /\ revert_log = NoLog
    /\ revert_calls = <<>>
    /\ reverts = 0

IdleRepo ==
    /\ rpc = "off"
    /\ sheet = <<>>
    /\ rules_file = Absent_File
    /\ rtoday = <<MinYear, 1, 1>>
    /\ result = NoResult
    /\ last_read = NoRead
    /\ ops = 0

IdleBulk ==
    /\ bpc = "off"
    /\ shop = <<>>
    /\ cache = StaleCache
    /\ fetch_path = "none"
    /\ bulk_req = NoRequest
    /\ used = <<>>
    /\ sent = <<>>
    /\ response = NoResponse
    /\ breqs = 0

IdleDates ==
    /\ dpc = "off"
    /\ date_arg = ""
    /\ year_arg = MinYear
    /\ parsed = None

\* One classification: the three oracle calls, the vote, the caller's lookup.
InitC == InitConsensus /\ IdleWindow /\ IdlePricing /\ IdleRepo /\ IdleBulk /\ IdleDates

SpecConsensus == InitC /\ [][NextConsensus]_vars

\* One window computation and what its callers do with the result.
InitW == InitWindow /\ IdleConsensus /\ IdlePricing /\ IdleRepo /\ IdleBulk /\ IdleDates

SpecWindow == InitW /\ [][NextWindow]_vars

\* Invocations of run_pricing_update, dry or live, over one day's rules.
InitP == InitPricing /\ IdleConsensus /\ IdleWindow /\ IdleRepo /\ IdleBulk /\ IdleDates

SpecPricing == InitP /\ [][NextPricing]_vars

\* One invocation of run_pricing_update and the reversals of its log.
InitV == InitPricing /\ IdleConsensus /\ IdleWindow /\ IdleRepo /\ IdleBulk /\ IdleDates

SpecRevert == InitV /\ [][NextRevert]_vars

\* Runs of the scripts that read and write the rules, over one day.
InitR == InitRepo /\ IdleConsensus /\ IdleWindow /\ IdlePricing /\ IdleBulk /\ IdleDates

SpecRepo == InitR /\ [][NextRepo]_vars

\* Requests to the listings dashboard.
InitB == InitBulk /\ IdleConsensus /\ IdleWindow /\ IdlePricing /\ IdleRepo /\ IdleDates

SpecBulk == InitB /\ [][NextBulk]_vars

\* One call of a date parser on one date string.
InitD == InitDates /\ IdleConsensus /\ IdleWindow /\ IdlePricing /\ IdleRepo /\ IdleBulk

SpecDates == InitD /\ [][NextDates]_vars

=============================================================================
